---- MODULE Spec2Model ----
(***************************************************************************)
(* DreamTeller: the multi-stage story generation pipeline.                 *)
(*                                                                         *)
(* Two orchestrators drive the same four-step process:                     *)
(*   - FALService.generate_story (Backend/services/fal_service.py), called *)
(*     by the HTTP route create_story; failures are raised;                *)
(*   - AI_Generation.generate_complete_story (AI-core/test.py), run by the *)
(*     GUI thread; failures are returned as three empty lists.             *)
(*                                                                         *)
(* A Python string is modelled as a sequence of atoms; an atom is a short  *)
(* piece of text ("SCENE", " ", "1", ":", a word).  The atoms the scene    *)
(* parser looks at (the word SCENE, white space, digits, the colon, the    *)
(* line feed) are atoms of their own, so the parser is computed on them as *)
(* the code computes it on characters.  Python's None is the string NONE   *)
(* where the value is a URL, and the empty sequence where it is a text.    *)
(*                                                                         *)
(* An orchestrator is one sequential thread of control that blocks in      *)
(* every provider call.  `pending` is the provider call in flight; each    *)
(* action is the return of that call followed by the code that runs up to  *)
(* the next provider call.  `calls` is the history of completed provider   *)
(* calls, `events` the history of status-channel callbacks.                *)
(*                                                                         *)
(* Eight specifications share the variables:                               *)
(*   - Spec: the two generation pipelines, POST /regenerate-text and the   *)
(*     image route POST /regenerate/{scene_index};                         *)
(*   - SpecParser: the scene parser of generate_story_scenes on provider   *)
(*     answers built line by line;                                         *)
(*   - SpecStorage: StoryStorageService.save_story and load_story on a     *)
(*     directory of archives (Backend/services/story_storage_service.py).  *)
(*   - SpecCatalog: list_saved_stories, delete_story and load_story on a   *)
(*     directory that earlier runs and uploads have filled.                *)
(*   - SpecGuiLoad: the GUI's StoryStorage.load_story (AI-core/test.py).   *)
(*   - SpecArchives: the archive and registry routes of story_routes.py:   *)
(*     save, upload, load, list, download, delete.                         *)
(*   - SpecErrors: the wrapper of handle_api_errors on every exception a   *)
(*     route handler can raise.                                            *)
(*   - SpecUi: the GUI's event loop, its lock and its generation threads,  *)
(*     interleaved step by step.                                           *)
(***************************************************************************)
EXTENDS Naturals, Integers, Sequences, FiniteSets, TLC

VARIABLES
    mode,                   \* "none" | "api" | "gui" | "regenerate" |
                            \* "regenerate_image": which orchestrator or
                            \* request runs
    stage,                  \* position of the orchestrator in the pipeline
    prompt,                 \* the request: [numScenes, artStyle, idea]
    story_sketch,           \* generate_story: story_sketch
    character_description,  \* generate_story: character_description
    story_scenes,           \* generate_story: story_scenes (parser output)
    scene_index,            \* generate_story: loop variable i / scene_index
    image_prompt,           \* generate_image: image_prompt
    scenes,                 \* generate_story: scenes (list of Scene)
    pending,                \* the provider call in flight, or NoCall
    calls,                  \* history: completed provider calls, in order
    result,                 \* what the orchestrator returned to its caller
    stories_db,             \* story_routes.stories_db (set of stored stories)
    image_data_list,        \* generate_complete_story: image_data_list
    image_url_list,         \* generate_complete_story: image_url_list
    events,                 \* history: status-channel callbacks, in order
    image_loading,          \* UI.image_loading
    status_message,         \* UI.status_message
    ui_state,               \* UI.state
    scene_lines,            \* the lines the text provider's answer is made of
    output_text,            \* generate_story_scenes: result["output"]
    num_scenes,             \* generate_story_scenes: num_scenes
    parser_pc,              \* "idle" | "called" | "returned"
    returned_scenes,        \* generate_story_scenes: the list it returns
    caller_story,           \* the Story the caller of the codec holds
    stories_dir,            \* StoryStorageService.stories_dir: name -> archive
    clock,                  \* datetime.now(), one tick for each storage call
    last_call,              \* the storage call that returned last
    written_by,             \* history: name -> the Story save_story wrote there
    saved_as,               \* history: the names given to save_story so far
    regenerated,            \* what the regenerate route answered
    show_file_dialog,       \* UI.show_file_dialog
    threads,                \* the generation threads started, each at its
                            \* position in generate_story_thread
    lock,                   \* UI.lock: 0 free, -1 held by the main thread,
                            \* k held by the k-th generation thread
    main_pc,                \* UI.run: "events" | "drawing" | "crashed"
    ui_num_scenes,          \* type of UI.num_scenes: "int" | "str"
    exc,                    \* what a wrapped route handler raised: kind
                            \* "none" | "http" (HTTPException) | "other"
    response                \* the HTTP answer of handle_api_errors' wrapper

\* the state of a scene parser run on its own
parserVars == <<scene_lines, output_text, num_scenes, parser_pc,
                returned_scenes>>

\* the state of the archive codec
storageVars == <<caller_story, stories_dir, clock, last_call, written_by,
                 saved_as>>

\* the state of the GUI's event loop and threads
uiVars == <<show_file_dialog, threads, lock, main_pc, ui_num_scenes>>

\* the state of a wrapped route handler
httpVars == <<exc, response>>

\* what the generation pipelines never touch
sideVars == <<parserVars, storageVars, regenerated, uiVars, httpVars>>

vars == <<mode, stage, prompt, story_sketch, character_description,
          story_scenes, scene_index, image_prompt, scenes, pending, calls,
          result, stories_db, image_data_list, image_url_list, events,
          image_loading, status_message, ui_state, sideVars>>

----------------------------------------------------------------------------
(* Bounds of the model *)

\* largest numScenes a request of the model asks for
MaxN == 3

\* largest number of phrases in the message of an exception
MaxPhrases == 2

\* largest number of scene markers in a text-provider answer of the model
MaxMarkers == 4

(* Program constants *)

MIN_SCENE_COUNT == 3
MAX_SCENE_COUNT == 10
GUI_MIN_SCENES == 1
GUI_MAX_SCENES == 10
BASE_SEED == 42
ABBREV_LEN == 100

NONE == "None"

Min(a, b) == IF a < b THEN a ELSE b

----------------------------------------------------------------------------
(* Strings as sequences of atoms *)

WS == {" ", "\t"}
LF == "\n"
Digits == {"0", "1", "2", "3", "4", "5", "6", "7", "8", "9"}
DigitChar == <<"0", "1", "2", "3", "4", "5", "6", "7", "8", "9">>

\* str(k) for a natural number k
RECURSIVE Dec(_)
Dec(k) == IF k < 10 THEN <<DigitChar[k + 1]>>
          ELSE Dec(k \div 10) \o <<DigitChar[(k % 10) + 1]>>

\* s.lstrip() / s.rstrip() / s.strip()
RECURSIVE LStrip(_)
LStrip(s) == IF s # <<>> /\ (Head(s) \in WS \/ Head(s) = LF)
             THEN LStrip(Tail(s)) ELSE s

RECURSIVE RStrip(_)
RStrip(s) == IF s # <<>> /\ (s[Len(s)] \in WS \/ s[Len(s)] = LF)
             THEN RStrip(SubSeq(s, 1, Len(s) - 1)) ELSE s

Strip(s) == RStrip(LStrip(s))

\* s[:k]
Take(s, k) == SubSeq(s, 1, Min(k, Len(s)))

\* position of the first atom a in s, 0 when there is none
RECURSIVE IndexFrom(_, _, _)
IndexFrom(s, a, k) == IF k > Len(s) THEN 0
                      ELSE IF s[k] = a THEN k
                      ELSE IndexFrom(s, a, k + 1)

IndexOf(s, a) == IndexFrom(s, a, 1)

\* s.split('\n'): always at least one line
RECURSIVE Split(_)
Split(s) == LET p == IndexOf(s, LF)
            IN  IF p = 0 THEN <<s>>
                ELSE <<SubSeq(s, 1, p - 1)>> \o Split(SubSeq(s, p + 1, Len(s)))

\* s.replace(a, '')
RECURSIVE Remove(_, _)
Remove(s, a) == IF s = <<>> THEN <<>>
                ELSE IF Head(s) = a THEN Remove(Tail(s), a)
                ELSE <<Head(s)>> \o Remove(Tail(s), a)

\* Python truth value of a text: `not x` is Falsy(x)
FalsyNever(x) == FALSE

Falsy(x) == x = <<>>

----------------------------------------------------------------------------
(* The scene parser of generate_story_scenes *)

\* re.search(r'SCENE\s+\d+:?', line): the word SCENE, one or more white
\* space, one or more digits; the match is case-sensitive (no re.IGNORECASE)
MarkerAt(line, p) ==
    /\ line[p] = "SCENE"
    /\ \E q \in (p + 2)..Len(line) :
          /\ line[q] \in Digits
          /\ \A r \in (p + 1)..(q - 1) : line[r] \in WS

IsMarker(line) == \E p \in 1..Len(line) : MarkerAt(line, p)

\* a marker line whose own text is thrown away
AfterColonNothing(line) == <<>>

\* line.split(':', 1)[1].strip() if ':' in line else ""
AfterColon(line) ==
    LET p == IndexOf(line, ":")
    IN  IF p = 0 THEN <<>> ELSE Strip(SubSeq(line, p + 1, Len(line)))

\* one iteration of `for line in scene_text.split('\n')`
ParseLine(st, rawline) ==
    LET line == Strip(rawline)
    IN  IF IsMarker(line)
        THEN [scenes  |-> IF st.scene_started /\ st.current_scene # <<>>
                          THEN Append(st.scenes, Strip(st.current_scene))
                          ELSE st.scenes,
              current_scene |-> AfterColon(line),
              scene_started |-> TRUE]
        ELSE IF st.scene_started /\ line # <<>>
        THEN [st EXCEPT !.current_scene = st.current_scene \o <<" ">> \o line]
        ELSE st

RECURSIVE ParseLines(_, _)
ParseLines(st, lines) ==
    IF lines = <<>> THEN st
    ELSE ParseLines(ParseLine(st, Head(lines)), Tail(lines))

\* the scenes collected by the loop and the flush after it
ParsedScenes(scene_text) ==
    LET st == ParseLines([scenes |-> <<>>, current_scene |-> <<>>,
                          scene_started |-> FALSE], Split(scene_text))
    IN  IF st.scene_started /\ st.current_scene # <<>>
        THEN Append(st.scenes, Strip(st.current_scene))
        ELSE st.scenes

\* f"Scene {k} description not available."
Placeholder(k) ==
    <<"Scene", " ">> \o Dec(k) \o
    <<" ", "description", " ", "not", " ", "available.">>

\* a parser that never pads
PadScenesNever(ss, n) == ss

\* a parser that numbers its placeholders from 1
PadScenesFromOne(ss, n) ==
    IF Len(ss) < n THEN ss \o [i \in 1..(n - Len(ss)) |-> Placeholder(i)]
    ELSE ss

\* while len(scenes) < num_scenes: scenes.append(placeholder)
RECURSIVE PadScenes(_, _)
PadScenes(ss, n) == IF Len(ss) < n
                    THEN PadScenes(Append(ss, Placeholder(Len(ss) + 1)), n)
                    ELSE ss

\* a parser that forgets `scenes[:num_scenes]`
SceneParserNoLimit(scene_text, n) == PadScenes(ParsedScenes(scene_text), n)

\* a parser that keeps the last num_scenes scenes
SceneParserLast(scene_text, n) ==
    LET ss == PadScenes(ParsedScenes(scene_text), n)
    IN  SubSeq(ss, Len(ss) - n + 1, Len(ss))

\* the parsing half of generate_story_scenes: pad, then scenes[:num_scenes]
SceneParser(scene_text, n) == Take(PadScenes(ParsedScenes(scene_text), n), n)

----------------------------------------------------------------------------
(* The providers: what a call can answer *)

\* a text-provider call raises, or answers result["output"]
TextReply(raised, output) == [raised |-> raised, output |-> output]

RaisedText == TextReply(TRUE, <<>>)

SketchReplies == {RaisedText, TextReply(FALSE, <<>>),
                  TextReply(FALSE, <<"sketch">>)}

CharacterReplies == {RaisedText, TextReply(FALSE, <<>>),
                     TextReply(FALSE, <<"profile">>)}

\* "SCENE k: sk", the text of scene k being the two atoms "s", str(k)
SceneBody(k) == <<"s">> \o Dec(k)

MarkerLine(k) == <<"SCENE", " ">> \o Dec(k) \o <<":", " ">> \o SceneBody(k)

\* k well-formed marker lines joined by line feeds; the empty text for k = 0
RECURSIVE WellFormed(_)
WellFormed(k) == IF k = 0 THEN <<>>
                 ELSE IF k = 1 THEN MarkerLine(1)
                 ELSE WellFormed(k - 1) \o <<LF>> \o MarkerLine(k)

\* a preamble, a marker without colon, continuation and blank lines, and a
\* lower-case marker: two scenes, "first" and "s2 more scene 3: third"
MessyBlob ==
    <<"Here", " ", "it", " ", "is", ":", LF,
      "SCENE", " ", "1", LF, " ", "first", " ", LF, LF,
      "SCENE", " ", " ", "2", ":", " ", "s", "2", LF, "more", LF,
      "scene", " ", "3", ":", " ", "third">>

SceneBlobs == {WellFormed(k) : k \in 0..MaxMarkers} \cup {MessyBlob}

ScenesReplies == {RaisedText} \cup {TextReply(FALSE, b) : b \in SceneBlobs}

\* the prompt generator raises (or answers without "prompt"), or answers
\* result["prompt"]
EnhanceReplies == {RaisedText, TextReply(FALSE, <<"enhanced">>)}

TitleReplies == {RaisedText, TextReply(FALSE, <<>>),
                 TextReply(FALSE, <<" ", "\"", "The", " ", "Title", "\"", LF>>)}

\* the URL the image provider gives to the image of its k-th scene
ImageUrls == <<"img0", "img1", "img2", "img3", "img4", "img5", "img6",
               "img7", "img8", "img9">>

\* an image-provider call raises, or answers result["images"]
ImageReply(raised, images) == [raised |-> raised, images |-> images]

ImageReplies(i) == {ImageReply(TRUE, <<>>), ImageReply(FALSE, <<>>),
                    ImageReply(FALSE, <<ImageUrls[i + 1]>>)}

ArtStyles == {"Digital Painting", "Watercolor"}

----------------------------------------------------------------------------
(* Provider calls *)

NoCall == [kind |-> "none", index |-> -1, seed |-> -1, prompt |-> <<>>]

TextCall(kind) == [kind |-> kind, index |-> -1, seed |-> -1, prompt |-> <<>>]

\* a completed call: the call, and what the provider answered
Completed(call, raised, output, url) ==
    [kind |-> call.kind, index |-> call.index, seed |-> call.seed,
     prompt |-> call.prompt, raised |-> raised, output |-> output,
     url |-> url]

\* the URL in the provider's answer, NONE when it raised or gave no image
AnsweredUrl(r) == IF ~r.raised /\ Len(r.images) > 0 THEN r.images[1] ELSE NONE

\* a seed that forgets the scene index
SeedFixed(i) == BASE_SEED

\* "seed": 42 + scene_index
Seed(i) == BASE_SEED + i

\* the fal-ai/video-prompt-generator call of generate_image_prompt
EnhanceCall(scene_text, i) ==
    [kind |-> "enhance", index |-> i, seed |-> -1, prompt |-> scene_text]

\* the fal-ai/flux/schnell call of generate_image
ImageCall(p, i) ==
    [kind |-> "image", index |-> i, seed |-> Seed(i), prompt |-> p]

\* a fallback that loses the scene text
EnhancedPromptLost(r, scene_text) ==
    IF r.raised THEN <<>> ELSE r.output

\* generate_image_prompt: result["prompt"], or scene_text when the call fails
EnhancedPrompt(r, scene_text) ==
    IF r.raised THEN scene_text ELSE r.output

\* if art_style and art_style != "Digital Painting": add " in <style> style"
WithArtStyle(p, art_style) ==
    IF art_style # "" /\ art_style # "Digital Painting"
    THEN p \o <<" ", "in", " ", art_style, " ", "style">>
    ELSE p

\* an image step that reports a URL even when the provider gave none
ImageUrlOfAlways(r, i) == ImageUrls[i + 1]

\* generate_image: result['images'][0]['url'], None when the call raised or
\* gave no image
ImageUrlOf(r, i) ==
    IF ~r.raised /\ Len(r.images) > 0 THEN r.images[1] ELSE NONE

\* scene_text[:100] + "..." (no text of the model is longer than 100)
Abbrev(scene_text) == Take(scene_text, ABBREV_LEN) \o <<"...">>

Scene(text, imageUrl, imagePrompt) ==
    [text |-> text, imageUrl |-> imageUrl, imagePrompt |-> imagePrompt]

\* a list that grows at the wrong end
PrependScene(ss, s) == <<s>> \o ss

\* scenes.append(scene)
AppendScene(ss, s) == Append(ss, s)

\* a fallback title that differs from the documented literal
TitleOfUnnamed(r) ==
    IF r.raised THEN <<"Untitled">> ELSE Remove(Strip(r.output), "\"")

\* generate_title: result["output"].strip().replace('"', ''), or the literal
\* "Untitled Story" when the call fails
TitleOf(r) ==
    IF r.raised THEN <<"Untitled Story">> ELSE Remove(Strip(r.output), "\"")

----------------------------------------------------------------------------
(* The order of the pipeline *)

ApiOrder == <<"SKETCH", "CHARACTER", "SCENES", "ILLUSTRATION", "TITLE", "DONE">>

GuiOrder == <<"SKETCH", "CHARACTER", "SCENES", "ILLUSTRATION", "DONE">>

Order(m) == IF m = "gui" THEN GuiOrder ELSE ApiOrder

\* position of a stage in the pipeline; IDLE is 0, FAILED is past the end
Rank(m, s) == IF s = "IDLE" THEN 0
              ELSE IF s = "FAILED" THEN Len(Order(m)) + 1
              ELSE IndexOf(Order(m), s)

\* a pipeline that asks for the scenes before the character profile exists
StageAfterSkipping(m, s) ==
    IF s = "SKETCH" THEN "SCENES" ELSE Order(m)[Rank(m, s) + 1]

\* the stage the code enters when stage s has produced its result
StageAfter(m, s) == Order(m)[Rank(m, s) + 1]

\* the provider call a stage starts with
FirstCall(s, ss) ==
    IF s = "SKETCH" THEN TextCall("sketch")
    ELSE IF s = "CHARACTER" THEN TextCall("character")
    ELSE IF s = "SCENES" THEN TextCall("scenes")
    ELSE IF s = "ILLUSTRATION" THEN EnhanceCall(ss[1], 0)
    ELSE IF s = "TITLE" THEN TextCall("title")
    ELSE NoCall

NoStory == [id |-> 0, title |-> <<>>, numScenes |-> 0, artStyle |-> "",
            scenes |-> <<>>]

NoResult == [status |-> "none", reason |-> "", story |-> NoStory]

Failure(reason) == [status |-> "error", reason |-> reason, story |-> NoStory]

Success(story) == [status |-> "ok", reason |-> "", story |-> story]

\* Story(title=title, prompt=prompt, scenes=scenes); the id is a fresh uuid
Story(id, title, p, ss) ==
    [id |-> id, title |-> title, numScenes |-> p.numScenes,
     artStyle |-> p.artStyle, scenes |-> ss]

----------------------------------------------------------------------------
(* State after construction: no request yet *)

\* no generation request has been made
PipelineIdle ==
    /\ mode = "none"
    /\ stage = "IDLE"
    /\ prompt = [numScenes |-> 0, artStyle |-> "", idea |-> ""]
    /\ story_sketch = <<>>
    /\ character_description = <<>>
    /\ story_scenes = <<>>
    /\ scene_index = 0
    /\ image_prompt = <<>>
    /\ scenes = <<>>
    /\ pending = NoCall
    /\ calls = <<>>
    /\ result = NoResult
    /\ stories_db = {}
    /\ image_data_list = <<>>
    /\ image_url_list = <<>>
    /\ events = <<>>
    /\ image_loading = <<>>
    /\ status_message = ""
    /\ ui_state = "input"
    /\ regenerated = [status |-> "none", text |-> <<>>]
    /\ show_file_dialog = FALSE
    /\ threads = <<>>
    /\ lock = 0
    /\ main_pc = "events"
    /\ ui_num_scenes = "int"

\* no wrapped route handler has run
HttpIdle ==
    /\ exc = [kind |-> "none", status_code |-> 0, message |-> <<>>]
    /\ response = [status_code |-> 0, detail |-> <<>>]

\* no parser run is under way
ParserIdle ==
    /\ scene_lines = <<>>
    /\ output_text = <<>>
    /\ num_scenes = 0
    /\ parser_pc = "idle"
    /\ returned_scenes = <<>>

\* the value of last_call before any storage call
NoStorageCall ==
    [op |-> "none", filename |-> <<>>, fetch |-> <<>>, raised |-> "",
     returned |-> <<>>, story |-> <<>>, listing |-> <<>>,
     deleted |-> FALSE, status_code |-> 0]

\* an empty stories directory, no storage call made
StorageIdle ==
    /\ caller_story = <<>>
    /\ stories_dir = <<>>
    /\ clock = 1
    /\ last_call = NoStorageCall
    /\ written_by = <<>>
    /\ saved_as = {}

Init == PipelineIdle /\ ParserIdle /\ StorageIdle /\ HttpIdle

guiVars == <<image_data_list, image_url_list, events, image_loading,
             status_message, ui_state>>

\* the requests the HTTP layer lets through: StoryPrompt.numScenes has
\* ge=3, le=10, and idea is any str, the empty one included
ApiPrompts ==
    [numScenes : MIN_SCENE_COUNT..Min(MaxN, MAX_SCENE_COUNT),
     artStyle : ArtStyles, idea : {"", "idea"}]

\* generate_story's `except Exception: raise`, seen from the route
Abort(reason) ==
    /\ stage' = "FAILED"
    /\ pending' = NoCall
    /\ result' = Failure(reason)

----------------------------------------------------------------------------
(* Backend: routes.create_story -> FALService.generate_story *)

\* POST /generate: generate_story runs up to its first provider call
create_story ==
    /\ mode = "none" /\ stage = "IDLE"
    /\ \E p \in ApiPrompts :
          /\ prompt' = p
          /\ mode' = "api"
          /\ stage' = "SKETCH"
          /\ pending' = FirstCall("SKETCH", <<>>)
    /\ UNCHANGED <<story_sketch, character_description, story_scenes,
                   scene_index, image_prompt, scenes, calls, result,
                   stories_db>>
    /\ UNCHANGED guiVars
    /\ UNCHANGED sideVars

\* Step 1 returns: generate_story_rough_sketch, then `if not story_sketch`
Api_generate_story_rough_sketch ==
    /\ mode = "api" /\ stage = "SKETCH" /\ pending.kind = "sketch"
    /\ \E r \in SketchReplies :
          /\ calls' = Append(calls, Completed(pending, r.raised, r.output, NONE))
          /\ IF r.raised
             THEN Abort("provider") /\ UNCHANGED story_sketch
             ELSE /\ story_sketch' = r.output
                  /\ IF Falsy(r.output)
                     THEN Abort("Failed to generate story sketch")
                     ELSE /\ stage' = StageAfter(mode, stage)
                          /\ pending' = FirstCall(StageAfter(mode, stage), <<>>)
                          /\ UNCHANGED result
    /\ UNCHANGED <<mode, prompt, character_description, story_scenes,
                   scene_index, image_prompt, scenes, stories_db>>
    /\ UNCHANGED guiVars
    /\ UNCHANGED sideVars

\* Step 2 returns: generate_character_description, then
\* `if not character_description`
Api_generate_character_description ==
    /\ mode = "api" /\ stage = "CHARACTER" /\ pending.kind = "character"
    /\ \E r \in CharacterReplies :
          /\ calls' = Append(calls, Completed(pending, r.raised, r.output, NONE))
          /\ IF r.raised
             THEN Abort("provider") /\ UNCHANGED character_description
             ELSE /\ character_description' = r.output
                  /\ IF Falsy(r.output)
                     THEN Abort("Failed to generate character description")
                     ELSE /\ stage' = StageAfter(mode, stage)
                          /\ pending' = FirstCall(StageAfter(mode, stage), <<>>)
                          /\ UNCHANGED result
    /\ UNCHANGED <<mode, prompt, story_sketch, story_scenes, scene_index,
                   image_prompt, scenes, stories_db>>
    /\ UNCHANGED guiVars
    /\ UNCHANGED sideVars

\* Step 3 returns: generate_story_scenes parses the answer, then
\* `if not story_scenes`; the loop of step 4 starts with scene 0
Api_generate_story_scenes ==
    /\ mode = "api" /\ stage = "SCENES" /\ pending.kind = "scenes"
    /\ \E r \in ScenesReplies :
          /\ calls' = Append(calls, Completed(pending, r.raised, r.output, NONE))
          /\ IF r.raised
             THEN /\ Abort("provider")
                  /\ UNCHANGED <<story_scenes, scenes, scene_index>>
             ELSE LET parsed == SceneParser(r.output, prompt.numScenes)
                  IN  /\ story_scenes' = parsed
                      /\ IF Falsy(parsed)
                         THEN /\ Abort("Failed to generate story scenes")
                              /\ UNCHANGED <<scenes, scene_index>>
                         ELSE /\ stage' = StageAfter(mode, stage)
                              /\ scenes' = <<>>
                              /\ scene_index' = 0
                              /\ pending' = FirstCall(StageAfter(mode, stage),
                                                      parsed)
                              /\ UNCHANGED result
    /\ UNCHANGED <<mode, prompt, story_sketch, character_description,
                   image_prompt, stories_db>>
    /\ UNCHANGED guiVars
    /\ UNCHANGED sideVars

\* Step 4, generate_image: generate_image_prompt returns (the enhanced
\* prompt, or the scene text when the call failed), the art style is added
\* and the image provider is called
Api_generate_image_prompt ==
    /\ mode = "api" /\ stage = "ILLUSTRATION" /\ pending.kind = "enhance"
    /\ \E r \in EnhanceReplies :
          LET p == WithArtStyle(
                       EnhancedPrompt(r, story_scenes[scene_index + 1]),
                       prompt.artStyle)
          IN  /\ calls' = Append(calls,
                                 Completed(pending, r.raised, r.output, NONE))
              /\ image_prompt' = p
              /\ pending' = ImageCall(p, scene_index)
    /\ UNCHANGED <<mode, stage, prompt, story_sketch, character_description,
                   story_scenes, scene_index, scenes, result, stories_db>>
    /\ UNCHANGED guiVars
    /\ UNCHANGED sideVars

\* Step 4, generate_image: the image provider returns; the Scene is built
\* and appended, and the loop goes to the next scene or to generate_title
Api_generate_image ==
    /\ mode = "api" /\ stage = "ILLUSTRATION" /\ pending.kind = "image"
    /\ \E r \in ImageReplies(scene_index) :
          LET image_url  == ImageUrlOf(r, scene_index)
              scene_text == story_scenes[scene_index + 1]
          IN  /\ calls' = Append(calls,
                                 Completed(pending, r.raised, <<>>, AnsweredUrl(r)))
              /\ scenes' = AppendScene(scenes,
                               Scene(scene_text, image_url, Abbrev(scene_text)))
    /\ IF scene_index + 1 < Len(story_scenes)
       THEN /\ scene_index' = scene_index + 1
            /\ pending' = EnhanceCall(story_scenes[scene_index + 2],
                                      scene_index + 1)
            /\ UNCHANGED stage
       ELSE /\ stage' = StageAfter(mode, stage)
            /\ pending' = FirstCall(StageAfter(mode, stage), story_scenes)
            /\ UNCHANGED scene_index
    /\ UNCHANGED <<mode, prompt, story_sketch, character_description,
                   story_scenes, image_prompt, result, stories_db>>
    /\ UNCHANGED guiVars
    /\ UNCHANGED sideVars

\* generate_title returns; generate_story returns the Story and create_story
\* stores it: stories_db[story.id] = story
Api_generate_title ==
    /\ mode = "api" /\ stage = "TITLE" /\ pending.kind = "title"
    /\ \E r \in TitleReplies :
          LET story == Story(Cardinality(stories_db) + 1, TitleOf(r), prompt,
                             scenes)
          IN  /\ calls' = Append(calls,
                                 Completed(pending, r.raised, r.output, NONE))
              /\ result' = Success(story)
              /\ stories_db' = stories_db \cup {story}
    /\ stage' = StageAfter(mode, stage)
    /\ pending' = NoCall
    /\ UNCHANGED <<mode, prompt, story_sketch, character_description,
                   story_scenes, scene_index, image_prompt, scenes>>
    /\ UNCHANGED guiVars
    /\ UNCHANGED sideVars

----------------------------------------------------------------------------
(* GUI: UI.start_generation -> generate_story_thread ->                    *)
(* AI_Generation.generate_complete_story, with the status channel          *)

StatusEvent(msg) ==
    [ev |-> "status", msg |-> msg, index |-> -1, loading |-> FALSE]

ImageStatusEvent(i, is_loading) ==
    [ev |-> "image_status", msg |-> "", index |-> i, loading |-> is_loading]

\* [False] * n
RECURSIVE Repeat(_, _)
Repeat(x, n) == IF n = 0 THEN <<>> ELSE Append(Repeat(x, n - 1), x)

\* UI.update_image_status: grow the list while len <= index, then set
UpdateImageStatus(loading, index, is_loading) ==
    LET grown == IF Len(loading) <= index
                 THEN loading \o Repeat(FALSE, index + 1 - Len(loading))
                 ELSE loading
    IN  [grown EXCEPT ![index + 1] = is_loading]

\* the callbacks of a list of events, applied to UI.image_loading
RECURSIVE ApplyImageStatus(_, _)
ApplyImageStatus(loading, evs) ==
    IF evs = <<>> THEN loading
    ELSE ApplyImageStatus(
             IF Head(evs).ev = "image_status"
             THEN UpdateImageStatus(loading, Head(evs).index, Head(evs).loading)
             ELSE loading,
             Tail(evs))

\* UI.update_status applied for a list of events: the last message wins
RECURSIVE LastStatus(_, _)
LastStatus(msg, evs) ==
    IF evs = <<>> THEN msg
    ELSE LastStatus(IF Head(evs).ev = "status" THEN Head(evs).msg ELSE msg,
                    Tail(evs))

\* the orchestrator invokes its callbacks, which update the UI under its lock
Emit(evs) ==
    /\ events' = events \o evs
    /\ image_loading' = ApplyImageStatus(image_loading, evs)
    /\ status_message' = LastStatus(status_message, evs)

\* the requests the input screen lets through: num_scenes is kept in 1..10,
\* and a generation starts only `if self.input_text.strip()`
GuiPrompts ==
    [numScenes : GUI_MIN_SCENES..Min(MaxN, GUI_MAX_SCENES),
     artStyle : {"Digital Painting"}, idea : {"idea"}]

\* the image provider raises or answers result["images"]; the image is then
\* downloaded from its URL, which can fail
GuiImageReply(raised, images, downloaded) ==
    [raised |-> raised, images |-> images, downloaded |-> downloaded]

GuiImageReplies(i) ==
    {GuiImageReply(TRUE, <<>>, FALSE), GuiImageReply(FALSE, <<>>, FALSE),
     GuiImageReply(FALSE, <<ImageUrls[i + 1]>>, FALSE),
     GuiImageReply(FALSE, <<ImageUrls[i + 1]>>, TRUE)}

ImageBytes == <<"png0", "png1", "png2", "png3", "png4", "png5", "png6",
                "png7", "png8", "png9">>

\* generate_image (GUI) got an image and downloaded it
GotImage(r) == ~r.raised /\ Len(r.images) > 0 /\ r.downloaded

\* a "done loading" callback placed at the end of the try block
FinallyImageStatusOnSuccess(r, i) ==
    IF GotImage(r) THEN <<ImageStatusEvent(i, FALSE)>> ELSE <<>>

\* generate_image (GUI): `finally: self.image_status_callback(scene_index,
\* False)`, whatever the provider answered
FinallyImageStatus(r, i) == <<ImageStatusEvent(i, FALSE)>>

\* generate_image (GUI) up to its first provider call
GuiStartImage(i) ==
    <<StatusEvent("Generating image"), ImageStatusEvent(i, TRUE)>>

\* generate_complete_story returns [], [], []
GuiAbort ==
    /\ stage' = "FAILED"
    /\ pending' = NoCall
    /\ result' = Failure("[], [], []")

\* UI.start_generation: the thread is created and started
start_generation ==
    /\ mode = "none" /\ stage = "IDLE" /\ ui_state = "input"
    /\ \E p \in GuiPrompts :
          /\ prompt' = p
          /\ image_loading' = Repeat(FALSE, p.numScenes)
    /\ mode' = "gui"
    /\ ui_state' = "generating"
    /\ status_message' = "Starting generation..."
    /\ stage' = "SKETCH"
    /\ UNCHANGED <<story_sketch, character_description, story_scenes,
                   scene_index, image_prompt, scenes, pending, calls, result,
                   stories_db, image_data_list, image_url_list, events>>
    /\ UNCHANGED sideVars

\* generate_complete_story up to the first provider call
Gui_generate_complete_story ==
    /\ mode = "gui" /\ stage = "SKETCH" /\ pending = NoCall
    /\ Emit(<<StatusEvent("Step 1/4"), StatusEvent("Creating sketch")>>)
    /\ pending' = FirstCall("SKETCH", <<>>)
    /\ UNCHANGED <<mode, stage, prompt, story_sketch, character_description,
                   story_scenes, scene_index, image_prompt, scenes, calls,
                   result, stories_db, image_data_list, image_url_list,
                   ui_state>>
    /\ UNCHANGED sideVars

\* Step 1 returns: an exception is reported and turned into "", then
\* `if not story_sketch: return [], [], []`
Gui_generate_story_rough_sketch ==
    /\ mode = "gui" /\ stage = "SKETCH" /\ pending.kind = "sketch"
    /\ \E r \in SketchReplies :
          LET sketch == IF r.raised THEN <<>> ELSE r.output
          IN  /\ calls' = Append(calls,
                                 Completed(pending, r.raised, r.output, NONE))
              /\ story_sketch' = sketch
              /\ IF Falsy(sketch)
                 THEN /\ GuiAbort
                      /\ Emit(IF r.raised
                              THEN <<StatusEvent("Error generating story sketch")>>
                              ELSE <<>>)
                 ELSE /\ stage' = StageAfter(mode, stage)
                      /\ pending' = FirstCall(StageAfter(mode, stage), <<>>)
                      /\ Emit(<<StatusEvent("Step 2/4"),
                                StatusEvent("Creating character profile")>>)
                      /\ UNCHANGED result
    /\ UNCHANGED <<mode, prompt, character_description, story_scenes,
                   scene_index, image_prompt, scenes, stories_db,
                   image_data_list, image_url_list, ui_state>>
    /\ UNCHANGED sideVars

\* Step 2 returns
Gui_generate_character_description ==
    /\ mode = "gui" /\ stage = "CHARACTER" /\ pending.kind = "character"
    /\ \E r \in CharacterReplies :
          LET profile == IF r.raised THEN <<>> ELSE r.output
          IN  /\ calls' = Append(calls,
                                 Completed(pending, r.raised, r.output, NONE))
              /\ character_description' = profile
              /\ IF Falsy(profile)
                 THEN /\ GuiAbort
                      /\ Emit(IF r.raised
                              THEN <<StatusEvent(
                                       "Error generating character description")>>
                              ELSE <<>>)
                 ELSE /\ stage' = StageAfter(mode, stage)
                      /\ pending' = FirstCall(StageAfter(mode, stage), <<>>)
                      /\ Emit(<<StatusEvent("Step 3/4"),
                                StatusEvent("Developing scenes")>>)
                      /\ UNCHANGED result
    /\ UNCHANGED <<mode, prompt, story_sketch, story_scenes, scene_index,
                   image_prompt, scenes, stories_db, image_data_list,
                   image_url_list, ui_state>>
    /\ UNCHANGED sideVars

\* Step 3 returns: the answer is parsed (an exception gives []), then
\* `if not story_scenes: return [], [], []`; step 4 starts with scene 0
Gui_generate_story_scenes ==
    /\ mode = "gui" /\ stage = "SCENES" /\ pending.kind = "scenes"
    /\ \E r \in ScenesReplies :
          LET parsed == IF r.raised THEN <<>>
                        ELSE SceneParser(r.output, prompt.numScenes)
          IN  /\ calls' = Append(calls,
                                 Completed(pending, r.raised, r.output, NONE))
              /\ story_scenes' = parsed
              /\ IF Falsy(parsed)
                 THEN /\ GuiAbort
                      /\ Emit(IF r.raised
                              THEN <<StatusEvent("Error generating story scenes")>>
                              ELSE <<>>)
                      /\ UNCHANGED <<image_data_list, image_url_list>>
                 ELSE /\ stage' = StageAfter(mode, stage)
                      /\ image_data_list' = Repeat(NONE, Len(parsed))
                      /\ image_url_list' = Repeat(NONE, Len(parsed))
                      /\ pending' = FirstCall(StageAfter(mode, stage), parsed)
                      /\ Emit(<<StatusEvent("Step 4/4")>> \o GuiStartImage(0))
                      /\ UNCHANGED result
    /\ scene_index' = 0
    /\ UNCHANGED <<mode, prompt, story_sketch, character_description,
                   image_prompt, scenes, stories_db, ui_state>>
    /\ UNCHANGED sideVars

\* Step 4, generate_image: generate_image_prompt returns and the image
\* provider is called (the GUI adds no art style)
Gui_generate_image_prompt ==
    /\ mode = "gui" /\ stage = "ILLUSTRATION" /\ pending.kind = "enhance"
    /\ \E r \in EnhanceReplies :
          LET p == EnhancedPrompt(r, story_scenes[scene_index + 1])
          IN  /\ calls' = Append(calls,
                                 Completed(pending, r.raised, r.output, NONE))
              /\ image_prompt' = p
              /\ pending' = ImageCall(p, scene_index)
    /\ UNCHANGED <<mode, stage, prompt, story_sketch, character_description,
                   story_scenes, scene_index, scenes, result, stories_db>>
    /\ UNCHANGED guiVars
    /\ UNCHANGED sideVars

\* Step 4, generate_image: the image provider returns, the image is
\* downloaded, `finally` reports the end of loading; the loop stores the pair
\* and goes to the next scene or returns the three lists
Gui_generate_image ==
    /\ mode = "gui" /\ stage = "ILLUSTRATION" /\ pending.kind = "image"
    /\ \E r \in GuiImageReplies(scene_index) :
          LET got   == GotImage(r)
              url   == IF got THEN r.images[1] ELSE NONE
              data  == IF got THEN ImageBytes[scene_index + 1] ELSE NONE
              error == IF r.raised \/ (Len(r.images) > 0 /\ ~r.downloaded)
                       THEN <<StatusEvent("Error generating image")>>
                       ELSE <<>>
              done  == error \o FinallyImageStatus(r, scene_index)
              last  == scene_index + 1 >= Len(story_scenes)
          IN  /\ calls' = Append(calls,
                              Completed(pending, r.raised, <<>>,
                                        AnsweredUrl(r)))
              /\ image_data_list' =
                     [image_data_list EXCEPT ![scene_index + 1] = data]
              /\ image_url_list' =
                     [image_url_list EXCEPT ![scene_index + 1] = url]
              /\ IF last
                 THEN /\ Emit(done \o <<StatusEvent("Story and images generated")>>)
                      /\ stage' = StageAfter(mode, stage)
                      /\ pending' = NoCall
                      /\ result' = Success(Story(0, <<>>, prompt,
                             [k \in 1..Len(story_scenes) |->
                                 Scene(story_scenes[k],
                                       image_url_list'[k], <<>>)]))
                      /\ UNCHANGED scene_index
                 ELSE /\ Emit(done \o GuiStartImage(scene_index + 1))
                      /\ scene_index' = scene_index + 1
                      /\ pending' = EnhanceCall(story_scenes[scene_index + 2],
                                                scene_index + 1)
                      /\ UNCHANGED <<stage, result>>
    /\ UNCHANGED <<mode, prompt, story_sketch, character_description,
                   story_scenes, image_prompt, scenes, stories_db, ui_state>>
    /\ UNCHANGED sideVars

\* generate_story_thread after generate_complete_story has returned: the
\* result is written under the lock and the UI shows the story
Gui_generate_story_thread ==
    /\ mode = "gui" /\ stage \in {"DONE", "FAILED"} /\ ui_state = "generating"
    /\ ui_state' = "viewing"
    /\ status_message' = ""
    /\ UNCHANGED <<mode, stage, prompt, story_sketch, character_description,
                   story_scenes, scene_index, image_prompt, scenes, pending,
                   calls, result, stories_db, image_data_list, image_url_list,
                   events, image_loading>>
    /\ UNCHANGED sideVars

\* a regeneration that answers the text it was given when the provider
\* fails
RegeneratedOrKept(r, current_text) ==
    IF r.raised THEN [status |-> "ok", text |-> current_text]
    ELSE [status |-> "ok", text |-> Strip(r.output)]

\* regenerate_scene_text: `return result["output"].strip()`, or the
\* exception, which the route hands on as an HTTP error
Regenerated(r, current_text) ==
    IF r.raised THEN [status |-> "error", text |-> <<>>]
    ELSE [status |-> "ok", text |-> Strip(r.output)]

\* POST /regenerate-text: regenerate_scene_text runs up to its provider
\* call; the request holds a prompt, the current text and a scene index
regenerate_scene ==
    /\ mode = "none" /\ stage = "IDLE"
    /\ \E p \in ApiPrompts, i \in 0..(MaxN - 1) :
          /\ prompt' = p
          /\ scene_index' = i
          /\ pending' = [TextCall("regenerate") EXCEPT
                            !.index = i, !.prompt = <<"current", " ", "text">>]
    /\ mode' = "regenerate"
    /\ UNCHANGED <<stage, story_sketch, character_description, story_scenes,
                   image_prompt, scenes, calls, result, stories_db>>
    /\ UNCHANGED guiVars
    /\ UNCHANGED sideVars

\* the provider call of regenerate_scene_text returns: it raises (or
\* answers without "output"), or answers a text
Api_regenerate_scene_text ==
    /\ mode = "regenerate" /\ pending.kind = "regenerate"
    /\ \E r \in {RaisedText, TextReply(FALSE, <<>>),
                  TextReply(FALSE, <<" ", "new", " ", "text", LF>>)} :
          /\ calls' = Append(calls, Completed(pending, r.raised, r.output, ""))
          /\ regenerated' = Regenerated(r, pending.prompt)
    /\ pending' = NoCall
    /\ UNCHANGED <<mode, stage, prompt, story_sketch, character_description,
                   story_scenes, scene_index, image_prompt, scenes, result,
                   stories_db>>
    /\ UNCHANGED guiVars
    /\ UNCHANGED <<parserVars, storageVars, uiVars, httpVars>>

\* POST /images/regenerate/{scene_index}: seed_offset = 42 + scene_index is
\* computed and dropped; diffusion_service.generate_image gets the prompt
\* and the sizes only, calls Replicate and, when that raises, Stability,
\* and neither provider input holds a seed (seed -1: none requested)
regenerate_scene_image ==
    /\ mode = "none" /\ stage = "IDLE"
    /\ \E i \in 0..(MaxN - 1), answers \in {<<"img0">>, <<NONE, "img0">>,
                                            <<NONE, NONE>>} :
          LET call == [kind |-> "regenerate_image", index |-> i, seed |-> -1,
                       prompt |-> <<"prompt">>]
              url == answers[Len(answers)]
          IN  /\ scene_index' = i
              /\ calls' = [k \in 1..Len(answers) |->
                              Completed(call, answers[k] = NONE, <<>>,
                                        answers[k])]
              /\ regenerated' =
                     IF url = NONE THEN [status |-> "error", text |-> <<>>]
                     ELSE [status |-> "ok", text |-> <<url>>]
    /\ mode' = "regenerate_image"
    /\ UNCHANGED <<stage, prompt, story_sketch, character_description,
                   story_scenes, image_prompt, scenes, pending, result,
                   stories_db>>
    /\ UNCHANGED guiVars
    /\ UNCHANGED <<parserVars, storageVars, uiVars, httpVars>>

ApiNext ==
    \/ create_story
    \/ regenerate_scene
    \/ Api_regenerate_scene_text
    \/ regenerate_scene_image
    \/ Api_generate_story_rough_sketch
    \/ Api_generate_character_description
    \/ Api_generate_story_scenes
    \/ Api_generate_image_prompt
    \/ Api_generate_image
    \/ Api_generate_title

GuiNext ==
    \/ start_generation
    \/ Gui_generate_complete_story
    \/ Gui_generate_story_rough_sketch
    \/ Gui_generate_character_description
    \/ Gui_generate_story_scenes
    \/ Gui_generate_image_prompt
    \/ Gui_generate_image
    \/ Gui_generate_story_thread

Next == ApiNext \/ GuiNext

Spec == Init /\ [][Next]_vars

----------------------------------------------------------------------------
(* Observations on the histories *)

CallsOf(kind) == SelectSeq(calls, LAMBDA c : c.kind = kind)

\* the image-provider calls issued so far: completed ones, then the one in
\* flight
ImageCallsIssued ==
    CallsOf("image") \o (IF pending.kind = "image" THEN <<pending>> ELSE <<>>)

\* a text-provider call that gave nothing: it raised or answered ""
GaveNothing(c) == c.raised \/ c.output = <<>>

\* the scenes the parser makes of the answer of the SCENES stage
ParsedAnswer == SceneParser(CallsOf("scenes")[1].output, prompt.numScenes)

\* positions in the event history of image_status(i, b)
ImageStatusAt(i, b) ==
    {k \in 1..Len(events) : /\ events[k].ev = "image_status"
                            /\ events[k].index = i
                            /\ events[k].loading = b}

----------------------------------------------------------------------------
(* Claims *)

\* C1: when the text provider raises or answers the empty string at the
\* SKETCH or the CHARACTER stage, the generation has failed: that call is
\* the last provider call ever made (no later stage, no image call), the
\* caller got a failure and no Story, and nothing was stored.
C1_AbortOnEmptySketchOrCharacter ==
    \A k \in 1..Len(calls) :
        (calls[k].kind \in {"sketch", "character"} /\ GaveNothing(calls[k]))
        => /\ k = Len(calls)
           /\ pending = NoCall
           /\ stage = "FAILED"
           /\ result.status = "error"
           /\ result.story = NoStory
           /\ stories_db = {}
           /\ CallsOf("image") = <<>>

C1_Witness ==
    /\ mode = "api" /\ stage = "FAILED"
    /\ Len(calls) = 2
    /\ calls[2].kind = "character"
    /\ ~calls[2].raised /\ calls[2].output = <<>>

\* C2: when the text provider answers the empty string at the SCENES stage,
\* the generation has failed: no later provider call (no image call), the
\* caller got a failure and no Story.
C2_AbortOnEmptyScenes ==
    \A k \in 1..Len(calls) :
        (calls[k].kind = "scenes" /\ ~calls[k].raised
                                  /\ calls[k].output = <<>>)
        => /\ k = Len(calls)
           /\ pending = NoCall
           /\ stage = "FAILED"
           /\ result.status = "error"
           /\ CallsOf("image") = <<>>

\* C3: a Story returned by a successful generation has exactly numScenes
\* scenes, whatever the text provider answered at the SCENES stage.
C3_SceneCount ==
    result.status = "ok" => Len(result.story.scenes) = prompt.numScenes

C3_Witness ==
    /\ mode = "api" /\ result.status = "ok"
    /\ Len(ParsedScenes(CallsOf("scenes")[1].output)) > prompt.numScenes
    /\ Len(result.story.scenes) = prompt.numScenes

\* C4: (Backend) a failed image-provider call (it raised or gave no image)
\* never fails the generation: the scene of that index is built with an
\* empty imageUrl, a scene whose call succeeded carries the answered URL,
\* the call for the next index is issued, and the generation ends with a
\* Story of numScenes scenes.
C4_ImageFailureTolerated ==
    mode = "api" =>
       /\ \A k \in 1..Len(calls) :
             calls[k].kind = "image" =>
                /\ stage \in {"ILLUSTRATION", "TITLE", "DONE"}
                /\ result.status # "error"
                /\ Len(scenes) > calls[k].index
                /\ scenes[calls[k].index + 1].imageUrl = calls[k].url
                /\ (calls[k].raised => calls[k].url = NONE)
                /\ calls[k].index + 1 < prompt.numScenes
                   => \/ pending.kind \in {"enhance", "image"}
                         /\ pending.index = calls[k].index + 1
                      \/ \E m \in (k + 1)..Len(calls) :
                            /\ calls[m].kind = "image"
                            /\ calls[m].index = calls[k].index + 1
       /\ stage = "DONE" =>
             /\ result.status = "ok"
             /\ result.story.scenes = scenes
             /\ Len(scenes) = prompt.numScenes
             /\ Len(CallsOf("image")) = prompt.numScenes

C4_Witness ==
    /\ mode = "api" /\ stage = "DONE" /\ result.status = "ok"
    /\ result.story.scenes[1].imageUrl = NONE
    /\ result.story.scenes[2].imageUrl = "img1"
    /\ result.story.scenes[3].imageUrl = NONE
    /\ CallsOf("image")[1].raised
    /\ ~CallsOf("image")[3].raised

\* C5: the stage only moves along SKETCH, CHARACTER, SCENES, ILLUSTRATION,
\* (TITLE,) DONE or to FAILED; DONE and FAILED are never left; a call of a
\* stage is issued only when the result of the stage before exists; and the
\* sketch, character and scenes calls are each made at most once.
C5_StageSteps ==
    {<<"IDLE", "SKETCH">>, <<"SKETCH", "CHARACTER">>,
     <<"CHARACTER", "SCENES">>, <<"SCENES", "ILLUSTRATION">>,
     <<"ILLUSTRATION", "TITLE">>, <<"ILLUSTRATION", "DONE">>,
     <<"TITLE", "DONE">>,
     <<"SKETCH", "FAILED">>, <<"CHARACTER", "FAILED">>,
     <<"SCENES", "FAILED">>, <<"ILLUSTRATION", "FAILED">>}

C5_AtMostOnce ==
    \A kind \in {"sketch", "character", "scenes"} :
        Len(CallsOf(kind)) + (IF pending.kind = kind THEN 1 ELSE 0) <= 1

C5_StageOrder ==
    /\ []C5_AtMostOnce
    /\ [][/\ stage' # stage => <<stage, stage'>> \in C5_StageSteps
          /\ (pending' # pending /\ pending'.kind = "sketch")
             => stage' = "SKETCH" /\ calls' = <<>>
          /\ (pending' # pending /\ pending'.kind = "character")
             => /\ stage' = "CHARACTER" /\ story_sketch' # <<>>
                /\ calls'[Len(calls')].kind = "sketch"
          /\ (pending' # pending /\ pending'.kind = "scenes")
             => /\ stage' = "SCENES" /\ character_description' # <<>>
                /\ calls'[Len(calls')].kind = "character"
          /\ (pending' # pending /\ pending'.kind \in {"enhance", "image"})
             => /\ stage' = "ILLUSTRATION" /\ story_scenes' # <<>>
                /\ Len(CallsOf("scenes")') = 1
          /\ (pending' # pending /\ pending'.kind = "title")
             => /\ stage' = "TITLE"
                /\ Len(CallsOf("image")') = prompt.numScenes
         ]_vars

C5_Witness ==
    /\ mode = "api" /\ stage = "DONE"
    /\ Len(CallsOf("sketch")) = 1 /\ Len(CallsOf("character")) = 1
    /\ Len(CallsOf("scenes")) = 1 /\ Len(CallsOf("title")) = 1
    /\ Len(CallsOf("image")) = prompt.numScenes

\* C6: the image calls are issued for the indices 0, 1, 2, ... in this
\* order, each after the call before it has returned, and position i of the
\* result holds the i-th parsed scene text with the answer of the call made
\* for index i.
C6_IllustrationOrder ==
    LET ic == CallsOf("image")
    IN  /\ \A j \in 1..Len(ic) : ic[j].index = j - 1
        /\ pending.kind \in {"enhance", "image"} => pending.index = Len(ic)
        /\ mode = "api" =>
              /\ Len(scenes) = Len(ic)
              /\ \A j \in 1..Len(scenes) :
                    /\ scenes[j].text = ParsedAnswer[j]
                    /\ scenes[j].imageUrl = ic[j].url
        /\ result.status = "ok" =>
              /\ Len(ic) = Len(result.story.scenes)
              /\ \A j \in 1..Len(result.story.scenes) :
                    /\ result.story.scenes[j].text = ParsedAnswer[j]
                    /\ result.story.scenes[j].imageUrl \in {ic[j].url, NONE}
                    /\ mode = "api"
                       => result.story.scenes[j].imageUrl = ic[j].url

C6_Witness ==
    /\ mode = "api" /\ result.status = "ok"
    /\ result.story.scenes[1].text = <<"s", "1">>
    /\ result.story.scenes[2].text = <<"s", "2">>
    /\ result.story.scenes[1].imageUrl = "img0"
    /\ result.story.scenes[2].imageUrl = "img1"
    /\ result.story.scenes[3].imageUrl = "img2"

\* C7: every image call issued for scene index i asks for the seed 42 + i,
\* and two image calls for different indices ask for different seeds.
C7_SeedPerScene ==
    LET issued == ImageCallsIssued
    IN  /\ \A j \in 1..Len(issued) : issued[j].seed = 42 + issued[j].index
        /\ pending.kind = "image" => pending.index = scene_index
        /\ \A a, b \in 1..Len(issued) :
              issued[a].index # issued[b].index
              => issued[a].seed # issued[b].seed

C7_Witness ==
    /\ Len(CallsOf("image")) >= 2
    /\ pending.kind = "image" /\ pending.index = 2 /\ pending.seed = 44

\* C8: (Backend) when the title call fails, the generation still ends in
\* DONE with a Story of numScenes scenes whose title is "Untitled Story";
\* a generation that has made its title call never is FAILED.
C8_TitleFallback ==
    \A k \in 1..Len(calls) :
        calls[k].kind = "title" =>
           /\ stage = "DONE"
           /\ result.status = "ok"
           /\ Len(result.story.scenes) = prompt.numScenes
           /\ result.story \in stories_db
           /\ calls[k].raised => result.story.title = <<"Untitled Story">>

C8_Witness ==
    /\ mode = "api" /\ stage = "DONE" /\ result.status = "ok"
    /\ CallsOf("title")[1].raised
    /\ result.story.title = <<"Untitled Story">>

\* C9: when the prompt-enhancement call of a scene fails, the next provider
\* call is the image call of that scene, its prompt is the raw scene text
\* (followed by the art-style suffix when the style asks for one), and the
\* generation has not failed.
C9_EnhanceFallback ==
    \A k \in 1..Len(calls) :
        (calls[k].kind = "enhance" /\ calls[k].raised) =>
           LET raw == ParsedAnswer[calls[k].index + 1]
               img == IF k < Len(calls) THEN calls[k + 1] ELSE pending
           IN  /\ img.kind = "image"
               /\ img.index = calls[k].index
               /\ stage # "FAILED"
               /\ img.prompt =
                     IF mode = "api" /\ prompt.artStyle # "Digital Painting"
                     THEN raw \o <<" ", "in", " ", prompt.artStyle, " ", "style">>
                     ELSE raw

C9_Witness ==
    /\ mode = "api" /\ prompt.artStyle = "Watercolor"
    /\ Len(calls) >= 5
    /\ calls[4].kind = "enhance" /\ calls[4].raised
    /\ calls[5].kind = "image"
    /\ calls[5].prompt = <<"s", "1", " ", "in", " ", "Watercolor", " ", "style">>

\* C10: (GUI) image_status(i, True) is emitted once, before the provider
\* calls of scene i; image_status(i, False) is emitted exactly once after
\* them, whatever they answered; so at most one scene is marked loading,
\* the one being illustrated, and none once the generation has ended.
C10_LoadingBracket ==
    mode = "gui" =>
       /\ pending.kind \in {"enhance", "image"} =>
             /\ Cardinality(ImageStatusAt(pending.index, TRUE)) = 1
             /\ ImageStatusAt(pending.index, FALSE) = {}
             /\ image_loading[pending.index + 1]
       /\ \A k \in 1..Len(calls) :
             calls[k].kind = "image" =>
                /\ Cardinality(ImageStatusAt(calls[k].index, TRUE)) = 1
                /\ Cardinality(ImageStatusAt(calls[k].index, FALSE)) = 1
                /\ \A a \in ImageStatusAt(calls[k].index, TRUE) :
                      \A b \in ImageStatusAt(calls[k].index, FALSE) : a < b
                /\ ~image_loading[calls[k].index + 1]
       /\ Cardinality({j \in 1..Len(image_loading) : image_loading[j]}) <= 1
       /\ stage \in {"DONE", "FAILED"} =>
             \A j \in 1..Len(image_loading) : ~image_loading[j]

C10_Witness ==
    /\ mode = "gui" /\ stage = "DONE"
    /\ Len(CallsOf("image")) >= 2
    /\ CallsOf("image")[1].raised
    /\ CallsOf("enhance")[2].raised
    /\ Cardinality(ImageStatusAt(0, FALSE)) = 1
    /\ Cardinality(ImageStatusAt(1, FALSE)) = 1

----------------------------------------------------------------------------
(* The scene parser on its own: generate_story_scenes from the provider's  *)
(* answer to its return.  An answer is a list of lines; every line carries *)
(* the word of its position, so that the place a returned text came from   *)
(* can be read off the text.                                               *)

\* largest number of lines in a provider answer of the model
MaxLines == 4

\* the word carried by the i-th line of an answer
Words == <<"w1", "w2", "w3", "w4", "w5", "w6", "w7", "w8", "w9">>

\* lines the regular expression of the parser matches:
\*   "SCENE j: w", "SCENE j:" and "SCENE j"
UpperMarkers == {"marker+text", "marker:", "marker"}

\* the same marker in another letter case: "scene j: w" and "Scene j: w"
OtherCaseMarkers == {"lower+text", "mixed+text"}

\* the kinds of line of an answer: markers, a line of text, a blank line
LineKinds == UpperMarkers \cup OtherCaseMarkers \cup {"text", "blank"}

\* the number written in the marker of line i: markers count from 1
MarkerNo(kinds, i) ==
    Cardinality({p \in 1..i : kinds[p] \in UpperMarkers \cup OtherCaseMarkers})

\* the text of line i of an answer
LineText(kinds, i) ==
    LET j == Dec(MarkerNo(kinds, i))
        w == Words[i]
    IN  CASE kinds[i] = "marker+text" -> <<"SCENE", " ">> \o j \o <<":", " ", w>>
          [] kinds[i] = "marker:"     -> <<"SCENE", " ">> \o j \o <<":">>
          [] kinds[i] = "marker"      -> <<"SCENE", "\t">> \o j
          [] kinds[i] = "lower+text"  -> <<"scene", " ">> \o j \o <<":", " ", w>>
          [] kinds[i] = "mixed+text"  -> <<"Scene", " ">> \o j \o <<":", " ", w>>
          [] kinds[i] = "text"        -> <<" ", w, " ">>
          [] kinds[i] = "blank"       -> <<"\t">>

\* '\n'.join(lines)
RECURSIVE JoinLines(_, _)
JoinLines(kinds, i) ==
    IF i > Len(kinds) THEN <<>>
    ELSE IF i = Len(kinds) THEN LineText(kinds, i)
    ELSE LineText(kinds, i) \o <<LF>> \o JoinLines(kinds, i + 1)

\* result["output"] for an answer made of the lines `kinds`
Render(kinds) == JoinLines(kinds, 1)

\* the answers of the model: up to MaxLines lines of any kind
Answers == UNION {[1..k -> LineKinds] : k \in 0..MaxLines}

\* generate_story_scenes has its answer and is about to parse it
InitParser ==
    /\ PipelineIdle
    /\ StorageIdle
    /\ HttpIdle
    /\ scene_lines \in Answers
    /\ output_text = Render(scene_lines)
    /\ num_scenes \in 1..MaxN
    /\ parser_pc = "called"
    /\ returned_scenes = <<>>

\* the parsing loop, the padding and the return of generate_story_scenes
parse_scenes ==
    /\ parser_pc = "called"
    /\ returned_scenes' = SceneParser(output_text, num_scenes)
    /\ parser_pc' = "returned"
    /\ UNCHANGED <<scene_lines, output_text, num_scenes>>
    /\ UNCHANGED <<mode, stage, prompt, story_sketch, character_description,
                   story_scenes, scene_index, image_prompt, scenes, pending,
                   calls, result, stories_db>>
    /\ UNCHANGED <<guiVars, storageVars, regenerated, uiVars, httpVars>>

NextParser == parse_scenes

SpecParser == InitParser /\ [][NextParser]_vars

----------------------------------------------------------------------------
(* The archive codec: StoryStorageService.  A file name is a sequence of   *)
(* atoms whose last atom is the extension when it has one; every other     *)
(* text is a string, None is NONE.  An archive is its metadata.json and    *)
(* its other members; a key that metadata.json does not hold is NONE.      *)

\* largest number of scenes of a Story of the model
MaxStoryScenes == 2

\* largest number of storage calls in a behaviour
MaxCalls == 3

EXT == ".story"

\* filename.endswith('.story')
EndsWithExt(filename) == filename # <<>> /\ filename[Len(filename)] = EXT

\* a save that appends the extension whatever the name
WithExtAlways(filename) == Append(filename, EXT)

\* if not filename.endswith('.story'): filename += '.story'
WithExt(filename) ==
    IF EndsWithExt(filename) THEN filename ELSE Append(filename, EXT)

\* get_story_file_path, relative to stories_dir
get_story_file_path(filename) == WithExt(filename)

\* save_story: the name it writes, from the title and the time when the
\* caller gives none (the titles of the model are alphanumeric)
SaveTarget(story, filename, now) ==
    WithExt(IF filename = <<>> THEN <<story.title, "_">> \o Dec(now)
            ELSE filename)

\* x or ""
OrEmpty(x) == IF x = NONE THEN "" ELSE x

SceneTexts == <<"t0", "t1", "t2", "t3">>
SceneUrls  == <<"u0", "u1", "u2", "u3">>
ImagePaths == <<"images/scene_0.png", "images/scene_1.png",
                "images/scene_2.png", "images/scene_3.png">>

\* models.Scene: the k-th scene of a story, with or without URL and prompt
StoryScene(k, o) ==
    [text        |-> SceneTexts[k],
     imageUrl    |-> IF o.url THEN SceneUrls[k] ELSE NONE,
     imagePrompt |-> IF o.prompt THEN "a prompt" ELSE NONE]

\* models.StoryPrompt: mainCharacter and setting are Optional, default None
StoryPrompt(mainCharacter, setting) ==
    [idea |-> "idea", genre |-> "Fantasy", tone |-> "Light",
     mainCharacter |-> mainCharacter, setting |-> setting,
     artStyle |-> "Watercolor", numScenes |-> MIN_SCENE_COUNT]

\* a prompt without mainCharacter, a prompt without setting
StoryPrompts == {StoryPrompt(NONE, "Mars"), StoryPrompt("Ada", NONE)}

\* models.Story: the stories a caller can hold before any load; a scene
\* has URL and prompt, or neither
Stories ==
    {[id |-> "id1", title |-> "T", prompt |-> p, scenes |-> ss, created_at |-> 0] :
        p \in StoryPrompts,
        ss \in UNION {{[k \in 1..n |-> StoryScene(k, f[k])] :
                          f \in [1..n -> {[url |-> TRUE, prompt |-> TRUE],
                                          [url |-> FALSE, prompt |-> FALSE]}]} :
                      n \in 1..MaxStoryScenes}}

\* download_image: the first attempt answers, or the retry, or neither
\* (None); it is not called for a scene without URL
NoData == [bytes_of |-> NONE]

Fetches(scene) ==
    IF scene.imageUrl \in {NONE, ""} THEN {"not called"}
    ELSE {"first", "retry", "failed"}

download_image(url, fetch) ==
    IF fetch \in {"first", "retry"} THEN [bytes_of |-> url] ELSE NoData

\* a save that records image_file for every scene that has a URL
SceneRecordAlways(i, scene, image_data) ==
    [index |-> i, text |-> scene.text, imageUrl |-> scene.imageUrl,
     imagePrompt |-> OrEmpty(scene.imagePrompt),
     image_file |-> IF scene.imageUrl # NONE THEN ImagePaths[i + 1] ELSE NONE]

\* a scene record that counts the scenes from 1
SceneRecordFromOne(i, scene, image_data) ==
    [index |-> i + 1, text |-> scene.text, imageUrl |-> scene.imageUrl,
     imagePrompt |-> OrEmpty(scene.imagePrompt),
     image_file |-> IF image_data # NoData THEN ImagePaths[i + 1] ELSE NONE]

\* save_story: scene_data of scene i, image_file only with image data
SceneRecord(i, scene, image_data) ==
    [index |-> i, text |-> scene.text, imageUrl |-> scene.imageUrl,
     imagePrompt |-> OrEmpty(scene.imagePrompt),
     image_file |-> IF image_data # NoData THEN ImagePaths[i + 1] ELSE NONE]

\* datetime.isoformat(): a time of the model is a number below 100, its
\* text two digits (the fields of an ISO text have a fixed width)
isoformat(t) == <<DigitChar[(t \div 10) + 1], DigitChar[(t % 10) + 1]>>

\* the value of a digit
Ord(d) == CHOOSE k \in 0..9 : DigitChar[k + 1] = d

\* datetime.fromisoformat(s)
fromisoformat(s) == Ord(s[1]) * 10 + Ord(s[2])

\* metadata.json without "creation_date" (.get gives None, or the default
\* ''), and with "creation_date": null
NoDate   == <<>>
NullDate == <<"null">>

\* a save that stamps the archive with the time of the save
SavedArchiveNow(story, fetch, now) ==
    LET data(k) == download_image(story.scenes[k].imageUrl, fetch[k])
    IN  [has_metadata |-> TRUE,
         metadata |->
            [id |-> story.id, title |-> story.title,
             prompt |-> [story.prompt EXCEPT
                            !.mainCharacter = OrEmpty(@),
                            !.setting = OrEmpty(@)],
             num_scenes |-> Len(story.scenes),
             creation_date |-> isoformat(now),
             scenes |-> [k \in 1..Len(story.scenes) |->
                            SceneRecord(k - 1, story.scenes[k], data(k))]],
         members |->
            {[path |-> "images/.keep", data |-> NoData]} \cup
            {[path |-> ImagePaths[k], data |-> data(k)] :
                k \in {j \in 1..Len(story.scenes) : data(j) # NoData}}]

\* save_story: the archive it writes for `story` when the image fetches end
\* as `fetch` says; creation_date is story.created_at.isoformat(), and the
\* time of the save for a story without one (a created_at below 0 stands
\* for None)
SavedArchive(story, fetch, now) ==
    LET data(k) == download_image(story.scenes[k].imageUrl, fetch[k])
    IN  [has_metadata |-> TRUE,
         metadata |->
            [id |-> story.id, title |-> story.title,
             prompt |-> [story.prompt EXCEPT
                            !.mainCharacter = OrEmpty(@),
                            !.setting = OrEmpty(@)],
             num_scenes |-> Len(story.scenes),
             creation_date |-> isoformat(IF story.created_at < 0 THEN now
                                         ELSE story.created_at),
             scenes |-> [k \in 1..Len(story.scenes) |->
                            SceneRecord(k - 1, story.scenes[k], data(k))]],
         members |->
            {[path |-> "images/.keep", data |-> NoData]} \cup
            {[path |-> ImagePaths[k], data |-> data(k)] :
                k \in {j \in 1..Len(story.scenes) : data(j) # NoData}}]

\* a failed save that leaves a complete archive behind
TruncatedArchiveWhole(story, fetch, now) == SavedArchive(story, fetch, now)

\* save_story: what is left at the target when a write raises after
\* ZipFile(filepath, 'w') created the file: metadata.json is written last,
\* so the file holds members but no metadata.json
TruncatedArchive(story, fetch, now) ==
    [SavedArchive(story, fetch, now) EXCEPT !.has_metadata = FALSE]

\* load_story: `for scene_data in metadata['scenes']`, the listed order
LoadOrder(records) == records

\* load_story: the Story rebuilt from metadata.json; created_at is the
\* recorded creation_date, and the time of the load when there is none
LoadedStory(archive, now) ==
    LET md == archive.metadata
        rs == LoadOrder(md.scenes)
    IN  [id |-> md.id, title |-> md.title, prompt |-> md.prompt,
         scenes |-> [k \in 1..Len(rs) |->
                        [text |-> rs[k].text, imageUrl |-> rs[k].imageUrl,
                         imagePrompt |-> rs[k].imagePrompt]],
         created_at |-> IF md.creation_date \in {NoDate, NullDate} THEN now
                        ELSE fromisoformat(md.creation_date)]

\* a load that rebuilds a Story from whatever the archive holds
LoadResultLenient(dir, filename, now) ==
    IF filename \notin DOMAIN dir
    THEN [NoStorageCall EXCEPT !.op = "load_story", !.filename = filename,
                               !.raised = "FileNotFoundError"]
    ELSE [NoStorageCall EXCEPT !.op = "load_story", !.filename = filename,
                               !.story = <<LoadedStory(dir[filename], now)>>]

\* load_story: what the call gives for `filename` in the directory `dir`
LoadResult(dir, filename, now) ==
    IF filename \notin DOMAIN dir
    THEN [NoStorageCall EXCEPT !.op = "load_story", !.filename = filename,
                               !.raised = "FileNotFoundError"]
    ELSE IF ~dir[filename].has_metadata
    THEN [NoStorageCall EXCEPT !.op = "load_story", !.filename = filename,
                               !.raised = "ValueError"]
    ELSE [NoStorageCall EXCEPT !.op = "load_story", !.filename = filename,
                               !.story = <<LoadedStory(dir[filename], now)>>]

\* a write that keeps the file that is there
WriteFileOnce(dir, name, content) ==
    [f \in DOMAIN dir \cup {name} |-> IF f \in DOMAIN dir THEN dir[f]
                                       ELSE content]

\* the directory after a file is written: ZipFile(filepath, 'w') overwrites
WriteFile(dir, name, content) ==
    [f \in DOMAIN dir \cup {name} |-> IF f = name THEN content ELSE dir[f]]

\* the directory after os.remove
RemoveFile(dir, name) == [f \in DOMAIN dir \ {name} |-> dir[f]]

\* stories_db[story.id] = story
PutStory(db, story) == {s \in db : s.id # story.id} \cup {story}

\* the names callers give to save_story (always a name, with or without
\* the extension) and to load_story
SaveNames == {<<"x">>, <<"x", EXT>>}
LoadNames == {<<"x">>, <<"x", EXT>>, <<"old">>, <<"old", EXT>>}

\* a story saved by an earlier run of the service
OldStory ==
    [id |-> "id0", title |-> "Old",
     prompt |-> StoryPrompt("Ada", "Mars"),
     scenes |-> <<StoryScene(1, [url |-> TRUE, prompt |-> TRUE]),
                  StoryScene(2, [url |-> FALSE, prompt |-> TRUE])>>,
     created_at |-> 0]

\* the same records listed in the opposite order
Reversed(s) == [k \in 1..Len(s) |-> s[Len(s) + 1 - k]]

\* the archives an earlier run, an upload or a copy can have left as
\* old.story: one as save_story writes it, one whose metadata lists the
\* scene records in another order, one without metadata.json
OldArchives ==
    LET a == SavedArchive(OldStory, <<"first", "not called">>, 0)
    IN  {a,
         [a EXCEPT !.metadata.scenes = Reversed(@)],
         [a EXCEPT !.has_metadata = FALSE]}

\* the caller holds a Story; the service starts on a directory that is
\* empty or holds old.story
InitStorage ==
    /\ PipelineIdle
    /\ ParserIdle
    /\ HttpIdle
    /\ caller_story \in Stories
    /\ stories_dir \in {WriteFile(<<>>, <<"old", EXT>>, a) : a \in OldArchives}
                        \cup {<<>>}
    /\ clock = 1
    /\ last_call = NoStorageCall
    /\ written_by = <<>>
    /\ saved_as = {}

\* StoryStorageService.save_story(story, filename), every image fetch
\* included.  It returns the name; or ZipFile(filepath, 'w') raises and no
\* file is made; or a later write raises and the file is left.  `except
\* Exception: raise` hands a failure to the caller
save_story ==
    /\ clock <= MaxCalls
    /\ \E filename \in SaveNames,
          outcome \in {"returns", "open raises", "write raises"} :
       \E fetch \in [1..Len(caller_story.scenes) ->
                        {"not called", "first", "retry", "failed"}] :
          /\ \A k \in 1..Len(caller_story.scenes) :
                fetch[k] \in IF outcome = "open raises" THEN {"not called"}
                             ELSE Fetches(caller_story.scenes[k])
          /\ LET target == SaveTarget(caller_story, filename, clock)
                 call   == [NoStorageCall EXCEPT !.op = "save_story",
                                                 !.filename = filename,
                                                 !.fetch = fetch]
             IN  IF outcome = "returns"
                 THEN /\ stories_dir' =
                            WriteFile(stories_dir, target,
                                      SavedArchive(caller_story, fetch, clock))
                      /\ written_by' =
                            WriteFile(written_by, target, caller_story)
                      /\ last_call' = [call EXCEPT !.returned = target]
                      /\ saved_as' = saved_as \cup {filename}
                 ELSE IF outcome = "open raises"
                 THEN /\ last_call' = [call EXCEPT !.raised = "Exception"]
                      /\ UNCHANGED <<stories_dir, written_by, saved_as>>
                 ELSE /\ stories_dir' =
                            WriteFile(stories_dir, target,
                                      TruncatedArchive(caller_story, fetch,
                                                       clock))
                      /\ written_by' = RemoveFile(written_by, target)
                      /\ last_call' = [call EXCEPT !.raised = "Exception"]
                      /\ UNCHANGED saved_as
    /\ clock' = clock + 1
    /\ UNCHANGED caller_story
    /\ UNCHANGED <<mode, stage, prompt, story_sketch, character_description,
                   story_scenes, scene_index, image_prompt, scenes, pending,
                   calls, result, stories_db>>
    /\ UNCHANGED <<guiVars, parserVars, regenerated, uiVars, httpVars>>

\* GET /load/{filename}: StoryStorageService.load_story(filename), then
\* stories_db[story.id] = story; an exception of load_story becomes the
\* 404 or 400 answer before the registry is touched.  The caller keeps the
\* Story it gets
load_story ==
    /\ clock <= MaxCalls
    /\ \E filename \in LoadNames :
          LET r == LoadResult(stories_dir, filename, clock)
          IN  /\ last_call' =
                     [r EXCEPT !.status_code =
                         IF r.raised = "" THEN 200
                         ELSE IF r.raised = "FileNotFoundError" THEN 404
                         ELSE 400]
              /\ caller_story' = IF r.raised = "" THEN r.story[1]
                                 ELSE caller_story
              /\ stories_db' = IF r.raised = "" THEN PutStory(stories_db,
                                                              r.story[1])
                               ELSE stories_db
    /\ clock' = clock + 1
    /\ UNCHANGED <<stories_dir, written_by, saved_as>>
    /\ UNCHANGED <<mode, stage, prompt, story_sketch, character_description,
                   story_scenes, scene_index, image_prompt, scenes, pending,
                   calls, result>>
    /\ UNCHANGED <<guiVars, parserVars, regenerated, uiVars, httpVars>>

NextStorage == save_story \/ load_story

SpecStorage == InitStorage /\ [][NextStorage]_vars

----------------------------------------------------------------------------
(* The catalog: list_saved_stories and delete_story on a directory that    *)
(* earlier runs, uploads and copies have filled                            *)

\* largest number of files of the directory the catalog starts on
MaxFiles == 2

\* a < b for two str keys: Python compares them character by character
RECURSIVE StrLess(_, _)
StrLess(a, b) ==
    IF b = <<>> THEN FALSE
    ELSE IF a = <<>> THEN TRUE
    ELSE IF Head(a) = Head(b) THEN StrLess(Tail(a), Tail(b))
    ELSE Ord(Head(a)) < Ord(Head(b))

\* the loop over os.listdir: one entry, the metadata and
\* metadata['filename'] = filename, for every name that ends with '.story'
\* and whose archive has a metadata.json; the others are skipped
RECURSIVE Entries(_, _)
Entries(dir, listed) ==
    IF listed = <<>> THEN <<>>
    ELSE LET f  == Head(listed)
             md == dir[f].metadata
         IN  (IF EndsWithExt(f) /\ dir[f].has_metadata
              THEN <<[filename |-> f, id |-> md.id, title |-> md.title,
                      creation_date |-> md.creation_date]>>
              ELSE <<>>)
             \o Entries(dir, Tail(listed))

\* a sort that puts the oldest first
RECURSIVE SortedAscending(_)
SortedAscending(entries) ==
    IF entries = <<>> THEN <<>>
    ELSE LET n    == Len(entries)
             e    == entries[n]
             rest == SortedAscending(SubSeq(entries, 1, n - 1))
             p    == Cardinality({k \in 1..Len(rest) :
                         ~StrLess(e.creation_date, rest[k].creation_date)})
         IN  SubSeq(rest, 1, p) \o <<e>> \o SubSeq(rest, p + 1, Len(rest))

\* stories.sort(key=lambda x: x.get('creation_date', ''), reverse=True):
\* the greatest key first, entries of equal key in the order they had
RECURSIVE Sorted(_)
Sorted(entries) ==
    IF entries = <<>> THEN <<>>
    ELSE LET n    == Len(entries)
             e    == entries[n]
             rest == Sorted(SubSeq(entries, 1, n - 1))
             p    == Cardinality({k \in 1..Len(rest) :
                         ~StrLess(rest[k].creation_date, e.creation_date)})
         IN  SubSeq(rest, 1, p) \o <<e>> \o SubSeq(rest, p + 1, Len(rest))

\* list_saved_stories for the directory listed in the order `listed`; the
\* sort raises TypeError when it compares None with another key, and the
\* outer `except Exception` then answers []
ListResult(dir, listed) ==
    LET entries == Entries(dir, listed)
        raises  == /\ Len(entries) > 1
                   /\ \E k \in 1..Len(entries) :
                         entries[k].creation_date = NullDate
    IN  [NoStorageCall EXCEPT
            !.op = "list_saved_stories",
            !.listing = IF raises THEN <<>> ELSE Sorted(entries)]

\* the files a directory can hold: old.story as archives created at
\* different times, without creation_date, with "creation_date": null,
\* and without metadata.json
CatalogArchives ==
    LET Dated(date) ==
            [SavedArchive(OldStory, <<"first", "not called">>, 0)
                EXCEPT !.metadata.creation_date = date]
    IN  {Dated(d) : d \in {isoformat(2), isoformat(10), NoDate, NullDate}}
        \cup {[Dated(isoformat(2)) EXCEPT !.has_metadata = FALSE]}

\* the service starts on a directory of at most MaxFiles files: two
\* archives, and a file that is not named as an archive
InitCatalog ==
    /\ PipelineIdle
    /\ ParserIdle
    /\ HttpIdle
    /\ caller_story = OldStory
    /\ stories_dir \in
          UNION {[names -> CatalogArchives] :
                    names \in {n \in SUBSET {<<"x", EXT>>, <<"old", EXT>>,
                                              <<"notes">>} :
                                  Cardinality(n) <= MaxFiles}}
    /\ clock = 1
    /\ last_call = NoStorageCall
    /\ written_by = <<>>
    /\ saved_as = {}

\* StoryStorageService.list_saved_stories(); os.listdir gives the names
\* in any order
list_saved_stories ==
    /\ clock <= MaxCalls
    /\ \E listed \in [1..Cardinality(DOMAIN stories_dir) ->
                          DOMAIN stories_dir] :
          /\ \A i, j \in DOMAIN listed : listed[i] = listed[j] => i = j
          /\ last_call' = ListResult(stories_dir, listed)
    /\ clock' = clock + 1
    /\ UNCHANGED <<caller_story, stories_dir, written_by, saved_as>>
    /\ UNCHANGED <<mode, stage, prompt, story_sketch, character_description,
                   story_scenes, scene_index, image_prompt, scenes, pending,
                   calls, result, stories_db>>
    /\ UNCHANGED <<guiVars, parserVars, regenerated, uiVars, httpVars>>

\* a delete that answers True whatever the directory holds
DeletedAlways(dir, filename) == TRUE

\* delete_story: os.path.exists(get_story_file_path(filename))
Deleted(dir, filename) == get_story_file_path(filename) \in DOMAIN dir

\* DELETE /saved/{filename}: StoryStorageService.delete_story(filename)
\* gives True after os.remove, False when there is no such file, and the
\* route answers 404 on False
delete_story ==
    /\ clock <= MaxCalls
    /\ \E filename \in LoadNames :
          LET target == get_story_file_path(filename)
          IN  /\ last_call' = [NoStorageCall EXCEPT
                                  !.op = "delete_story",
                                  !.filename = filename,
                                  !.deleted = Deleted(stories_dir, filename),
                                  !.status_code =
                                      IF Deleted(stories_dir, filename)
                                      THEN 200 ELSE 404]
              /\ stories_dir' = RemoveFile(stories_dir, target)
              /\ written_by' = RemoveFile(written_by, target)
    /\ clock' = clock + 1
    /\ UNCHANGED <<caller_story, saved_as>>
    /\ UNCHANGED <<mode, stage, prompt, story_sketch, character_description,
                   story_scenes, scene_index, image_prompt, scenes, pending,
                   calls, result, stories_db>>
    /\ UNCHANGED <<guiVars, parserVars, regenerated, uiVars, httpVars>>

\* GET /saved/download/{filename}: the HTTPException(404) for a missing
\* file is raised inside the try block, whose `except Exception` answers
\* every exception with 400
download_story ==
    /\ clock <= MaxCalls
    /\ \E filename \in LoadNames :
          last_call' = [NoStorageCall EXCEPT
                           !.op = "download_story",
                           !.filename = filename,
                           !.returned =
                               IF get_story_file_path(filename)
                                     \in DOMAIN stories_dir
                               THEN get_story_file_path(filename) ELSE <<>>,
                           !.status_code =
                               IF get_story_file_path(filename)
                                     \in DOMAIN stories_dir
                               THEN 200 ELSE 400]
    /\ clock' = clock + 1
    /\ UNCHANGED <<caller_story, stories_dir, written_by, saved_as>>
    /\ UNCHANGED <<mode, stage, prompt, story_sketch, character_description,
                   story_scenes, scene_index, image_prompt, scenes, pending,
                   calls, result, stories_db>>
    /\ UNCHANGED <<guiVars, parserVars, regenerated, uiVars, httpVars>>

\* DELETE /{story_id}: 404 for an id that is not in stories_db, else
\* `del stories_db[story_id]`; no storage call is made
Route_delete_story ==
    /\ \E story_id \in {"id0", "id1"} :
          /\ \E s \in stories_db : s.id = story_id
          /\ stories_db' = {s \in stories_db : s.id # story_id}
    /\ UNCHANGED storageVars
    /\ UNCHANGED <<mode, stage, prompt, story_sketch, character_description,
                   story_scenes, scene_index, image_prompt, scenes, pending,
                   calls, result>>
    /\ UNCHANGED <<guiVars, parserVars, regenerated, uiVars, httpVars>>

\* an upload that takes the name made of the title although it is taken
ProperNameTaken(dir, safe_title) == <<safe_title, EXT>>

\* upload_story: proper_filename, "<title>.story" or the first
\* "<title>_<counter>.story", counter = 1, 2, ..., that does not exist
ProperName(dir, safe_title) ==
    LET name(k) == IF k = 0 THEN <<safe_title, EXT>>
                   ELSE <<safe_title, "_">> \o Dec(k) \o <<EXT>>
        free == {k \in 0..Cardinality(DOMAIN dir) : name(k) \notin DOMAIN dir}
    IN  name(CHOOSE k \in free : \A j \in free : k <= j)

\* POST /saved/upload: the extension check, the temporary file
\* temp_<uuid>.story, load_story on it, the rename to the proper name and
\* the registry entry; on any exception the temporary file is removed, if
\* it exists, and the answer is 400 (the titles of the model are
\* alphanumeric, so safe_title is the title)
upload_story ==
    /\ clock <= MaxCalls
    /\ \E filename \in {<<"up">>, <<"up", EXT>>},
          content \in {b \in CatalogArchives :
                          b.metadata.creation_date = isoformat(2)},
          outcome \in {"returns", "write raises", "rename raises"} :
          LET temp   == <<"temp_uuid", EXT>>
              call   == [NoStorageCall EXCEPT !.op = "upload_story",
                                              !.filename = filename]
              failed == [call EXCEPT !.raised = "Exception",
                                     !.status_code = 400]
              written == WriteFile(stories_dir, temp, content)
              r      == LoadResult(written, temp, clock)
              proper == ProperName(written, r.story[1].title)
          IN  IF ~EndsWithExt(filename)
              THEN /\ last_call' = [failed EXCEPT !.raised = "HTTPException"]
                   /\ UNCHANGED <<stories_dir, stories_db>>
              ELSE IF outcome = "write raises" \/ r.raised # ""
                      \/ outcome = "rename raises"
              THEN /\ last_call' = failed
                   /\ stories_dir' = RemoveFile(written, temp)
                   /\ UNCHANGED stories_db
              ELSE /\ last_call' = [call EXCEPT !.returned = proper,
                                                !.story = r.story,
                                                !.status_code = 200]
                   /\ stories_dir' =
                         WriteFile(RemoveFile(written, temp), proper, content)
                   /\ stories_db' = PutStory(stories_db, r.story[1])
    /\ clock' = clock + 1
    /\ UNCHANGED <<caller_story, written_by, saved_as>>
    /\ UNCHANGED <<mode, stage, prompt, story_sketch, character_description,
                   story_scenes, scene_index, image_prompt, scenes, pending,
                   calls, result>>
    /\ UNCHANGED <<guiVars, parserVars, regenerated, uiVars, httpVars>>

SpecCatalog ==
    InitCatalog /\ [][list_saved_stories \/ delete_story \/ load_story]_vars

\* the archive routes start on an empty directory, or on one archive of an
\* earlier run: a whole one, or one without metadata.json
InitArchives ==
    /\ PipelineIdle
    /\ ParserIdle
    /\ HttpIdle
    /\ caller_story = OldStory
    /\ stories_dir \in
          {<<>>} \cup
          {WriteFile(<<>>, name, a) :
              name \in {<<"old", EXT>>, <<"Old", EXT>>},
              a \in {b \in CatalogArchives :
                        b.metadata.creation_date = isoformat(2)}}
    /\ clock = 1
    /\ last_call = NoStorageCall
    /\ written_by = <<>>
    /\ saved_as = {}

\* every route of story_routes.py that reads or writes the archives or
\* the registry
SpecArchives ==
    InitArchives /\ [][save_story \/ upload_story \/ delete_story
                         \/ load_story \/ list_saved_stories
                         \/ download_story \/ Route_delete_story]_vars

----------------------------------------------------------------------------
(* The GUI's own codec: StoryStorage.load_story on the archives that       *)
(* StoryStorage.save_story writes                                          *)

\* the archives StoryStorage.save_story writes: a scene was generated with
\* its image (image_file, payload and image_url), or its image could not
\* be downloaded (image_url only), or it has no image at all
GuiArchives ==
    LET Kinds == {"image", "url only", "none"}
        Archive(kind) ==
            [has_metadata |-> TRUE,
             metadata |->
                [title |-> "T", prompt |-> "idea",
                 num_scenes |-> Len(kind), creation_date |-> isoformat(0),
                 scenes |-> [k \in 1..Len(kind) |->
                    [index |-> k - 1, text |-> SceneTexts[k],
                     image_file |-> IF kind[k] = "image" THEN ImagePaths[k]
                                    ELSE NONE,
                     image_url |-> IF kind[k] = "none" THEN NONE
                                   ELSE SceneUrls[k]]]],
             members |->
                {[path |-> "images/", data |-> NoData]} \cup
                {[path |-> ImagePaths[k], data |-> [bytes_of |-> SceneUrls[k]]] :
                    k \in {j \in 1..Len(kind) : kind[j] = "image"}}]
    IN  {Archive(kind) : kind \in UNION {[1..n -> Kinds] :
                                            n \in 1..MaxStoryScenes}}

\* the GUI starts on a directory that is empty or holds x.story, written
\* by StoryStorage.save_story or left without metadata.json
InitGuiLoad ==
    /\ PipelineIdle
    /\ ParserIdle
    /\ HttpIdle
    /\ caller_story = <<>>
    /\ stories_dir \in
          {<<>>} \cup
          {WriteFile(<<>>, <<"x", EXT>>, a) :
              a \in GuiArchives \cup
                    {[b EXCEPT !.has_metadata = FALSE] : b \in GuiArchives}}
    /\ clock = 1
    /\ last_call = NoStorageCall
    /\ written_by = <<>>
    /\ saved_as = {}

\* StoryStorage.load_story(filename), every urlopen included: for each
\* scene in the order of its index, the image is read from image_url when
\* there is one, and from image_file when that gave nothing
Gui_load_story ==
    /\ clock <= MaxCalls
    /\ \E filename \in LoadNames :
          LET target == WithExt(filename)
              call   == [NoStorageCall EXCEPT !.op = "gui_load_story",
                                              !.filename = filename]
          IN  IF target \notin DOMAIN stories_dir
              THEN last_call' = [call EXCEPT !.raised = "FileNotFoundError"]
              ELSE IF ~stories_dir[target].has_metadata
              THEN last_call' = [call EXCEPT !.raised = "ValueError"]
              ELSE
                LET a     == stories_dir[target]
                    n     == Len(a.metadata.scenes)
                    rec(k) == CHOOSE r \in {a.metadata.scenes[j] : j \in 1..n} :
                                  r.index = k - 1
                IN  \E fetch \in [1..n -> {"not called", "fetched", "failed"}] :
                       /\ \A k \in 1..n :
                             (fetch[k] = "not called") =
                                (rec(k).image_url \in {NONE, ""})
                       /\ last_call' =
                             [call EXCEPT
                                !.fetch = fetch,
                                !.story =
                                   <<[metadata |-> a.metadata,
                                      story_scenes |->
                                         [k \in 1..n |-> rec(k).text],
                                      generated_images |->
                                         [k \in 1..n |->
                                            IF fetch[k] = "fetched"
                                            THEN [bytes_of |-> rec(k).image_url]
                                            ELSE IF \E m \in a.members :
                                                      m.path = rec(k).image_file
                                            THEN (CHOOSE m \in a.members :
                                                    m.path = rec(k).image_file).data
                                            ELSE NoData]]>>]
    /\ clock' = clock + 1
    /\ UNCHANGED <<caller_story, stories_dir, written_by, saved_as>>
    /\ UNCHANGED <<mode, stage, prompt, story_sketch, character_description,
                   story_scenes, scene_index, image_prompt, scenes, pending,
                   calls, result, stories_db>>
    /\ UNCHANGED <<guiVars, parserVars, regenerated, uiVars, httpVars>>

SpecGuiLoad == InitGuiLoad /\ [][Gui_load_story]_vars

----------------------------------------------------------------------------
(* What an answer says, read from its lines and not from its text *)

\* the lines of an answer that carry a marker the parser matches, in order
MarkerLines(kinds) ==
    SelectSeq([p \in 1..Len(kinds) |-> p],
              LAMBDA p : kinds[p] \in UpperMarkers)

\* what line p gives to the scene it belongs to: the text after the colon
\* of a marker line, the stripped text of any other line
Piece(kinds, p) ==
    CASE kinds[p] \in {"marker+text", "text"} -> <<Words[p]>>
      [] kinds[p] \in OtherCaseMarkers        -> LineText(kinds, p)
      [] OTHER                                -> <<>>

\* the content marked by the marker of line i: the pieces of line i and of
\* the lines after it up to the next marker, joined by single spaces
RECURSIVE ContentFrom(_, _, _)
ContentFrom(kinds, i, p) ==
    IF p > Len(kinds) \/ (p > i /\ kinds[p] \in UpperMarkers) THEN <<>>
    ELSE LET piece == Piece(kinds, p)
             rest  == ContentFrom(kinds, i, p + 1)
         IN  IF piece = <<>> THEN rest
             ELSE IF rest = <<>> THEN piece
             ELSE piece \o <<" ">> \o rest

\* the marked contents of an answer, one for each marker, in order
MarkedContents(kinds) ==
    LET ms == MarkerLines(kinds)
    IN  [i \in 1..Len(ms) |-> ContentFrom(kinds, ms[i], ms[i])]

\* the marked contents that are not empty, in order
NonEmptyContents(kinds) ==
    SelectSeq(MarkedContents(kinds), LAMBDA c : c # <<>>)

\* the lines of the answer a returned text was taken from
LinesIn(text) ==
    {i \in 1..Len(Words) : \E p \in 1..Len(text) : text[p] = Words[i]}

IsPlaceholder(text) == \E k \in 1..MAX_SCENE_COUNT : text = Placeholder(k)

\* a marker in any letter case written in upper case
UpperCased(text) ==
    [p \in 1..Len(text) |->
        IF text[p] \in {"scene", "Scene"} THEN "SCENE" ELSE text[p]]

----------------------------------------------------------------------------
(* C11: for every answer and every n >= 1 the parser returns exactly n     *)
(* texts, none of them empty, and a text taken from an earlier line of the *)
(* answer stands before a text taken from a later line.                    *)

C11_ExactlyNNonEmptyInOrder ==
    parser_pc = "returned" =>
        /\ Len(returned_scenes) = num_scenes
        /\ \A i \in 1..Len(returned_scenes) : returned_scenes[i] # <<>>
        /\ \A i, j \in 1..Len(returned_scenes) :
              i < j => \A a \in LinesIn(returned_scenes[i]) :
                          \A b \in LinesIn(returned_scenes[j]) : a < b

\* three texts returned: two parsed from different lines, one placeholder
C11_Witness ==
    /\ parser_pc = "returned"
    /\ num_scenes = 3
    /\ Len(returned_scenes) = 3
    /\ LinesIn(returned_scenes[1]) # {}
    /\ LinesIn(returned_scenes[2]) # {}
    /\ IsPlaceholder(returned_scenes[3])

----------------------------------------------------------------------------
(* C12: an answer with exactly n markers "SCENE 1:" .. "SCENE n:", each    *)
(* followed by text on its line or on later lines, parses to exactly the n *)
(* marked contents in order; continuation lines are joined by one space    *)
(* and the text before the first marker is dropped.                        *)

WellFormedAnswer(kinds, n) ==
    /\ \A p \in 1..Len(kinds) :
          kinds[p] \in {"marker+text", "marker:", "text", "blank"}
    /\ Len(MarkerLines(kinds)) = n
    /\ \A i \in 1..n : MarkedContents(kinds)[i] # <<>>

C12_WellFormedRoundTrip ==
    (parser_pc = "returned" /\ WellFormedAnswer(scene_lines, num_scenes))
        => returned_scenes = MarkedContents(scene_lines)

\* a preamble, a marker with text and a continuation line, a second marker
C12_Witness ==
    /\ parser_pc = "returned"
    /\ num_scenes = 2
    /\ scene_lines = <<"text", "marker+text", "text", "marker+text">>
    /\ returned_scenes = <<<<"w2", " ", "w3">>, <<"w4">>>>

----------------------------------------------------------------------------
(* C13, as stated: with k < n markers in the answer the parser returns n   *)
(* texts, the first k are the contents of the k markers and the last n-k   *)
(* are "Scene <i> description not available." for i = k+1..n.              *)

C13_UnderProductionByMarkers ==
    LET k == Len(MarkerLines(scene_lines))
    IN  (parser_pc = "returned" /\ k < num_scenes) =>
            /\ Len(returned_scenes) = num_scenes
            /\ \A i \in 1..k :
                  returned_scenes[i] = MarkedContents(scene_lines)[i]
            /\ \A i \in (k + 1)..num_scenes :
                  returned_scenes[i] = Placeholder(i)

(* C13, amended: a marker followed by no text gives no scene.  With m < n  *)
(* markers followed by text, the parser returns n texts: the m marked      *)
(* contents that are not empty, in order, then the placeholders            *)
(* "Scene <i> description not available." for i = m+1..n.                  *)

C13_UnderProductionFill ==
    LET parsed == NonEmptyContents(scene_lines)
        m      == Len(parsed)
    IN  (parser_pc = "returned" /\ m < num_scenes) =>
            returned_scenes =
                parsed \o [i \in 1..(num_scenes - m) |-> Placeholder(m + i)]

\* two markers, the first without text: one scene and two placeholders
C13_Witness ==
    /\ parser_pc = "returned"
    /\ num_scenes = 3
    /\ scene_lines = <<"marker:", "marker+text">>
    /\ returned_scenes = <<<<"w2">>, Placeholder(2), Placeholder(3)>>

----------------------------------------------------------------------------
(* C14, as stated: with k > n markers in the answer the parser returns the *)
(* contents of the first n markers, in order, and adds no placeholder.     *)

C14_OverProductionByMarkers ==
    LET k == Len(MarkerLines(scene_lines))
    IN  (parser_pc = "returned" /\ k > num_scenes) =>
            /\ returned_scenes = Take(MarkedContents(scene_lines), num_scenes)
            /\ \A i \in 1..Len(returned_scenes) :
                  ~IsPlaceholder(returned_scenes[i])

(* C14, amended: with m > n markers followed by text, the parser returns   *)
(* exactly the first n of the m marked contents that are not empty, in     *)
(* their order in the answer, and adds no placeholder.                     *)

C14_OverProductionTruncation ==
    LET parsed == NonEmptyContents(scene_lines)
    IN  (parser_pc = "returned" /\ Len(parsed) > num_scenes) =>
            /\ returned_scenes = Take(parsed, num_scenes)
            /\ \A i \in 1..Len(returned_scenes) :
                  ~IsPlaceholder(returned_scenes[i])

\* four markers, the first without text, two scenes asked for
C14_Witness ==
    /\ parser_pc = "returned"
    /\ num_scenes = 2
    /\ scene_lines = <<"marker:", "marker+text", "marker+text", "marker+text">>
    /\ returned_scenes = <<<<"w2">>, <<"w3">>>>

----------------------------------------------------------------------------
(* C15: the marker is recognised in any letter case: an answer parses to   *)
(* the list its text with every marker written "SCENE" parses to.          *)

C15_CaseInsensitiveMarker ==
    parser_pc = "returned" =>
        returned_scenes = SceneParser(UpperCased(output_text), num_scenes)

----------------------------------------------------------------------------
(* Observations on the archive codec *)

\* the last call was a save_story / a load_story that returned a Story
Saved == last_call.op = "save_story" /\ last_call.raised = ""

Loaded == last_call.op = "load_story" /\ last_call.raised = ""

\* the names of the directory that share the base name of `filename`
SameBase(filename) == {f \in DOMAIN stories_dir : f[1] = filename[1]}

----------------------------------------------------------------------------
(* C16: loading the archive written by save_story(S, "x") gives a Story    *)
(* with the id, the title and the prompt of S, every field of the prompt   *)
(* as it is in S (an absent mainCharacter or setting stays absent), and    *)
(* with the text and the imagePrompt of every scene of S, in the order of  *)
(* S.                                                                      *)

C16_RoundTrip ==
    (Loaded /\ last_call.filename \in DOMAIN written_by) =>
        LET S == written_by[last_call.filename]
            L == last_call.story[1]
        IN  /\ L.id = S.id
            /\ L.title = S.title
            /\ L.prompt = S.prompt
            /\ Len(L.scenes) = Len(S.scenes)
            /\ \A k \in 1..Len(S.scenes) :
                  /\ L.scenes[k].text = S.scenes[k].text
                  /\ L.scenes[k].imagePrompt = S.scenes[k].imagePrompt

----------------------------------------------------------------------------
(* C17: load_story orders the scenes by the index recorded in each scene   *)
(* record: whatever the order of the records in metadata.json, the scene   *)
(* at position i of the loaded Story is the record whose index is i.       *)

C17_LoadOrdersByIndex ==
    Loaded =>
        LET rs == stories_dir[last_call.filename].metadata.scenes
            L  == last_call.story[1]
        IN  \A k \in 1..Len(rs) :
               L.scenes[rs[k].index + 1].text = rs[k].text

----------------------------------------------------------------------------
(* C18: whatever scenes the image fetch fails for (first attempt and       *)
(* retry), save_story returns the file name and the archive it wrote has   *)
(* one record for every scene with the text, the imagePrompt (the empty    *)
(* string for a scene without one) and the original imageUrl of the scene; *)
(* the record of a scene whose fetch failed has no image_file and the      *)
(* archive no payload for it, the record of a fetched scene has its        *)
(* image_file and the archive its payload.                                 *)

C18_PartialImageFailure ==
    Saved =>
        /\ last_call.returned \in DOMAIN stories_dir
        /\ LET S  == written_by[last_call.returned]
               a  == stories_dir[last_call.returned]
               rs == a.metadata.scenes
           IN  /\ a.has_metadata
               /\ Len(rs) = Len(S.scenes)
               /\ \A k \in 1..Len(rs) :
                     /\ rs[k].index = k - 1
                     /\ rs[k].text = S.scenes[k].text
                     /\ rs[k].imageUrl = S.scenes[k].imageUrl
                     /\ rs[k].imagePrompt =
                           (IF S.scenes[k].imagePrompt = NONE THEN ""
                            ELSE S.scenes[k].imagePrompt)
                     /\ last_call.fetch[k] \in {"failed", "not called"} =>
                           /\ rs[k].image_file = NONE
                           /\ \A m \in a.members : m.path # ImagePaths[k]
                     /\ last_call.fetch[k] \in {"first", "retry"} =>
                           /\ rs[k].image_file = ImagePaths[k]
                           /\ \E m \in a.members :
                                 /\ m.path = ImagePaths[k]
                                 /\ m.data = [bytes_of |-> S.scenes[k].imageUrl]

\* a save of two scenes: one fetched by the retry, one that failed twice
C18_Witness ==
    /\ Saved
    /\ Len(last_call.fetch) = 2
    /\ last_call.fetch[1] = "retry"
    /\ last_call.fetch[2] = "failed"
    /\ stories_dir[last_call.returned].metadata.scenes[2].imageUrl = SceneUrls[2]

----------------------------------------------------------------------------
(* C19: save_story(S, "x") and save_story(S, "x.story") write the same     *)
(* file and both return "x.story": the extension is appended only when it  *)
(* is missing, and however often the story is saved under the names "x"    *)
(* and "x.story" the directory holds exactly one archive of that base      *)
(* name, named "x.story".                                                  *)

C19_FilenameNormalization ==
    Saved =>
        /\ last_call.returned = <<last_call.filename[1], EXT>>
        /\ SameBase(last_call.filename) = {last_call.returned}
        /\ stories_dir[last_call.returned] =
              SavedArchive(caller_story, last_call.fetch, clock - 1)

\* the story was saved as "x" and as "x.story", the second save came last
C19_Witness ==
    /\ Saved
    /\ saved_as = {<<"x">>, <<"x", EXT>>}
    /\ last_call.filename = <<"x", EXT>>
    /\ DOMAIN written_by = {<<"x", EXT>>}

----------------------------------------------------------------------------
(* C20: load_story takes the file name with or without the extension: once *)
(* save_story(S, "x") has written x.story, load_story("x") and             *)
(* load_story("x.story") both return the Story held by that archive.       *)

C20_LoadNormalizesName ==
    (last_call.op = "load_story"
        /\ get_story_file_path(last_call.filename) \in DOMAIN written_by) =>
        /\ last_call.raised = ""
        /\ last_call.story =
              <<LoadedStory(stories_dir[get_story_file_path(last_call.filename)],
                            clock - 1)>>

----------------------------------------------------------------------------
(* Observation of storage steps *)

\* the step is a load_story call
LoadStep == last_call'.op = "load_story" /\ clock' = clock + 1

\* the step is a save_story call
SaveStep == last_call'.op = "save_story" /\ clock' = clock + 1

----------------------------------------------------------------------------
(* The GUI's event loop and its generation threads (test.py, class UI).    *)
(* The main thread handles one event at a time and draws under UI.lock; a  *)
(* generation thread runs generate_complete_story, whose status callbacks  *)
(* take the lock, and writes its result under the lock.                    *)

\* largest number of generations started in one run of the GUI
MaxGenerations == 2

\* largest number of provider calls one generation thread makes
MaxThreadCalls == 2

\* a run loop that hands the events of state "generating" to the input
\* screen
DispatchGenerating(dialog, state) ==
    IF dialog THEN "file_dialog"
    ELSE IF state = "generating" THEN "input"
    ELSE state

\* UI.run: the handler an event goes to.  The file dialog comes first;
\* there is no handler for state "generating"
Dispatch(dialog, state) ==
    IF dialog THEN "file_dialog"
    ELSE IF state \in {"start_menu", "input", "viewing"} THEN state
    ELSE "none"

\* the pipeline variables the event loop leaves alone
UiFrame ==
    /\ UNCHANGED <<mode, stage, prompt, story_sketch, character_description,
                   scene_index, image_prompt, scenes, pending, calls, result,
                   stories_db, image_data_list, image_url_list, events,
                   image_loading>>
    /\ UNCHANGED <<parserVars, storageVars, regenerated, httpVars>>

\* the application window has opened: UI.__init__
InitUi ==
    /\ mode = "none"
    /\ stage = "IDLE"
    /\ prompt = [numScenes |-> 0, artStyle |-> "", idea |-> ""]
    /\ story_sketch = <<>>
    /\ character_description = <<>>
    /\ story_scenes = <<>>
    /\ scene_index = 0
    /\ image_prompt = <<>>
    /\ scenes = <<>>
    /\ pending = NoCall
    /\ calls = <<>>
    /\ result = NoResult
    /\ stories_db = {}
    /\ image_data_list = <<>>
    /\ image_url_list = <<>>
    /\ events = <<>>
    /\ image_loading = <<>>
    /\ status_message = ""
    /\ ui_state = "start_menu"
    /\ regenerated = [status |-> "none", text |-> <<>>]
    /\ show_file_dialog = FALSE
    /\ threads = <<>>
    /\ lock = 0
    /\ main_pc = "events"
    /\ ui_num_scenes = "int"
    /\ ParserIdle /\ StorageIdle /\ HttpIdle

\* "Create New Story" and "Load Existing Story"
handle_start_menu_events ==
    /\ main_pc = "events"
    /\ Dispatch(show_file_dialog, ui_state) = "start_menu"
    /\ \/ /\ ui_state' = "input"
          /\ ui_num_scenes' = "int"
          /\ UNCHANGED show_file_dialog
       \/ /\ show_file_dialog' = TRUE
          /\ UNCHANGED <<ui_state, ui_num_scenes>>
    /\ UNCHANGED <<story_scenes, status_message, threads, lock, main_pc>>
    /\ UiFrame

\* the input screen: the back button; backspace and a digit in the scenes
\* box (backspace leaves a str in num_scenes, a digit 1..9 an int); the
\* generate button and the Enter key, which call start_generation:
\* state = "generating", then `[False] * self.num_scenes`, which raises
\* TypeError for a str and ends the main thread, then the thread is started
handle_input_events ==
    /\ main_pc = "events"
    /\ Dispatch(show_file_dialog, ui_state) = "input"
    /\ \/ /\ ui_state' = "start_menu"
          /\ UNCHANGED <<ui_num_scenes, status_message, threads, main_pc>>
       \/ /\ ui_num_scenes' \in {"str", "int"}
          /\ UNCHANGED <<ui_state, status_message, threads, main_pc>>
       \/ /\ Len(threads) < MaxGenerations
          /\ ui_state' = "generating"
          /\ status_message' = "Starting generation..."
          /\ IF ui_num_scenes = "int"
             THEN /\ threads' = Append(threads,
                                       [pc |-> "running",
                                        calls_left |-> MaxThreadCalls])
                  /\ UNCHANGED main_pc
             ELSE /\ main_pc' = "crashed"
                  /\ UNCHANGED threads
          /\ UNCHANGED ui_num_scenes
    /\ UNCHANGED <<story_scenes, show_file_dialog, lock>>
    /\ UiFrame

\* the story page: "New Story", "Main Menu", "Save" and "Load"
handle_viewing_events ==
    /\ main_pc = "events"
    /\ Dispatch(show_file_dialog, ui_state) = "viewing"
    /\ \/ /\ ui_state' = "input"
          /\ story_scenes' = <<>>
          /\ status_message' = ""
          /\ UNCHANGED show_file_dialog
       \/ /\ ui_state' = "start_menu"
          /\ UNCHANGED <<story_scenes, status_message, show_file_dialog>>
       \/ /\ show_file_dialog' = TRUE
          /\ UNCHANGED <<ui_state, story_scenes, status_message>>
    /\ UNCHANGED <<ui_num_scenes, threads, lock, main_pc>>
    /\ UiFrame

\* the file dialog: it is closed; or a story is saved and it is closed; or
\* load_selected_story loads a story (state "viewing", num_scenes an int)
\* or fails with a status message, and it is closed
handle_file_dialog_events ==
    /\ main_pc = "events"
    /\ Dispatch(show_file_dialog, ui_state) = "file_dialog"
    /\ show_file_dialog' = FALSE
    /\ \/ UNCHANGED <<ui_state, story_scenes, status_message, ui_num_scenes>>
       \/ /\ story_scenes' = <<<<"loaded", " ", "scene">>>>
          /\ ui_state' = "viewing"
          /\ status_message' = "Story loaded!"
          /\ ui_num_scenes' = "int"
       \/ /\ status_message' = "Error loading story"
          /\ UNCHANGED <<ui_state, story_scenes, ui_num_scenes>>
    /\ UNCHANGED <<threads, lock, main_pc>>
    /\ UiFrame

\* UI.run draws the screen: `with self.lock:` is entered, and left
run ==
    /\ \/ /\ main_pc = "events" /\ lock = 0
          /\ main_pc' = "drawing" /\ lock' = -1
       \/ /\ main_pc = "drawing"
          /\ main_pc' = "events" /\ lock' = 0
    /\ UNCHANGED <<ui_state, story_scenes, status_message, show_file_dialog,
                   threads, ui_num_scenes>>
    /\ UiFrame

\* UI.update_status and UI.update_image_status, called by the generation
\* thread from generate_complete_story: `with self.lock:` is entered, and
\* left with the message written
update_status ==
    /\ \E t \in DOMAIN threads :
          \/ /\ threads[t].pc = "running" /\ lock = 0
             /\ threads' = [threads EXCEPT ![t].pc = "status"]
             /\ lock' = t
             /\ UNCHANGED status_message
          \/ /\ threads[t].pc = "status"
             /\ threads' = [threads EXCEPT ![t].pc = "running"]
             /\ lock' = 0
             /\ status_message' = "Step"
    /\ UNCHANGED <<ui_state, story_scenes, show_file_dialog, main_pc,
                   ui_num_scenes>>
    /\ UiFrame

\* a provider call made from inside a status callback
subscribe_in_callback ==
    /\ \E t \in DOMAIN threads :
          \/ /\ threads[t].pc \in {"running", "status"}
             /\ threads[t].calls_left > 0
             /\ threads' = [threads EXCEPT ![t].pc = "calling",
                                           ![t].calls_left = @ - 1]
          \/ /\ threads[t].pc = "calling"
             /\ threads' = [threads EXCEPT ![t].pc = "running"]
    /\ UNCHANGED <<ui_state, story_scenes, status_message, show_file_dialog,
                   lock, main_pc, ui_num_scenes>>
    /\ UiFrame

\* fal_client.subscribe and urlopen in the stages of
\* generate_complete_story: the call is made between two callbacks, and it
\* returns or raises into the code that made it
subscribe ==
    /\ \E t \in DOMAIN threads :
          \/ /\ threads[t].pc = "running"
             /\ threads[t].calls_left > 0
             /\ threads' = [threads EXCEPT ![t].pc = "calling",
                                           ![t].calls_left = @ - 1]
          \/ /\ threads[t].pc = "calling"
             /\ threads' = [threads EXCEPT ![t].pc = "running"]
    /\ UNCHANGED <<ui_state, story_scenes, status_message, show_file_dialog,
                   lock, main_pc, ui_num_scenes>>
    /\ UiFrame

\* generate_story_thread once generate_complete_story has returned, after
\* any number of provider calls: `with self.lock:` is entered; the result is
\* written and the state set to "viewing", or, when the block raises, the
\* except branch takes the lock again and sets the state to "input"
generate_story_thread ==
    /\ \E t \in DOMAIN threads :
          \/ /\ threads[t].pc = "running" /\ lock = 0
             /\ threads' = [threads EXCEPT ![t].pc = "writing"]
             /\ lock' = t
             /\ UNCHANGED <<ui_state, story_scenes, status_message>>
          \/ /\ threads[t].pc = "writing"
             /\ threads' = [threads EXCEPT ![t].pc = "done"]
             /\ lock' = 0
             /\ \/ /\ story_scenes' \in {<<>>, <<<<"scene">>>>}
                   /\ ui_state' = "viewing"
                   /\ status_message' = ""
                \/ /\ ui_state' = "input"
                   /\ status_message' = "Error generating story"
                   /\ UNCHANGED story_scenes
    /\ UNCHANGED <<show_file_dialog, main_pc, ui_num_scenes>>
    /\ UiFrame

SpecUi ==
    InitUi /\ [][handle_start_menu_events \/ handle_input_events
                   \/ handle_viewing_events \/ handle_file_dialog_events
                   \/ run \/ update_status \/ subscribe
                   \/ generate_story_thread]_vars

----------------------------------------------------------------------------
(* utils/error_handling.py.  The message of an exception is a sequence of  *)
(* phrases as the raiser spelled them; str.lower() is applied phrase by    *)
(* phrase and `in` looks for a phrase of the lower-cased message.          *)

\* a wrapper that looks for "rate limit" before "api key"
handle_api_errors_rate_first(e) ==
    LET text == [k \in DOMAIN e.message |->
                    CASE e.message[k] = "API key" -> "api key"
                      [] e.message[k] = "Rate Limit" -> "rate limit"
                      [] e.message[k] = "Invalid" -> "invalid"
                      [] OTHER -> e.message[k]]
        In(p) == \E k \in DOMAIN text : text[k] = p
    IN  IF e.kind = "none" THEN [status_code |-> 200, detail |-> <<>>]
        ELSE IF e.kind = "http"
        THEN [status_code |-> e.status_code, detail |-> e.message]
        ELSE IF In("rate limit")
        THEN [status_code |-> 429,
              detail |-> <<"Rate limit exceeded. Please try again later.">>]
        ELSE IF In("api key")
        THEN [status_code |-> 401, detail |-> <<"API authentication failed">>]
        ELSE IF In("not found")
        THEN [status_code |-> 404, detail |-> e.message]
        ELSE IF In("invalid")
        THEN [status_code |-> 400, detail |-> e.message]
        ELSE [status_code |-> 500,
              detail |-> <<"An unexpected error occurred: ">> \o e.message]

\* handle_api_errors' wrapper: the answer for what the handler did.  The
\* handler's own answer is 200; `except HTTPException: raise`; any other
\* exception goes through the if/elif chain on str(e).lower()
handle_api_errors(e) ==
    LET text == [k \in DOMAIN e.message |->
                    CASE e.message[k] = "API key" -> "api key"
                      [] e.message[k] = "Rate Limit" -> "rate limit"
                      [] e.message[k] = "Invalid" -> "invalid"
                      [] OTHER -> e.message[k]]
        In(p) == \E k \in DOMAIN text : text[k] = p
    IN  IF e.kind = "none" THEN [status_code |-> 200, detail |-> <<>>]
        ELSE IF e.kind = "http"
        THEN [status_code |-> e.status_code, detail |-> e.message]
        ELSE IF In("api key")
        THEN [status_code |-> 401, detail |-> <<"API authentication failed">>]
        ELSE IF In("rate limit")
        THEN [status_code |-> 429,
              detail |-> <<"Rate limit exceeded. Please try again later.">>]
        ELSE IF In("not found")
        THEN [status_code |-> 404, detail |-> e.message]
        ELSE IF In("invalid")
        THEN [status_code |-> 400, detail |-> e.message]
        ELSE [status_code |-> 500,
              detail |-> <<"An unexpected error occurred: ">> \o e.message]

\* a route handler has returned or raised: an HTTPException of its own, or
\* any other exception with a message of up to MaxPhrases phrases
InitErrors ==
    /\ PipelineIdle
    /\ ParserIdle
    /\ StorageIdle
    /\ LET phrases == {"API key", "api key", "Rate Limit", "not found",
                        "Invalid", "timeout"}
           messages(m) == UNION {[1..n -> phrases] : n \in 0..m}
       IN  exc \in [kind : {"none"}, status_code : {0}, message : {<<>>}]
                \cup [kind : {"other"}, status_code : {0},
                      message : messages(MaxPhrases)]
                \cup [kind : {"http"}, status_code : {400, 404, 500},
                      message : messages(1)]
    /\ response = [status_code |-> 0, detail |-> <<>>]

\* the wrapper answers the request
wrapper ==
    /\ response.status_code = 0
    /\ response' = handle_api_errors(exc)
    /\ UNCHANGED <<mode, stage, prompt, story_sketch, character_description,
                   story_scenes, scene_index, image_prompt, scenes, pending,
                   calls, result, stories_db, exc>>
    /\ UNCHANGED <<guiVars, parserVars, storageVars, regenerated, uiVars>>

SpecErrors == InitErrors /\ [][wrapper]_vars

----------------------------------------------------------------------------
(* C21: load_story fails with not-found when no file has the given name    *)
(* and with a format error when the archive has no metadata.json; a load   *)
(* that fails returns no Story, and leaves stories_db and every archive of *)
(* the directory as they were.                                             *)

C21_FailedLoadChangesNothing ==
    [][LoadStep =>
          LET f == last_call'.filename
          IN  /\ f \notin DOMAIN stories_dir =>
                    last_call'.raised = "FileNotFoundError"
              /\ (f \in DOMAIN stories_dir /\ ~stories_dir[f].has_metadata) =>
                    last_call'.raised = "ValueError"
              /\ last_call'.raised # "" =>
                    /\ last_call'.story = <<>>
                    /\ stories_db' = stories_db
                    /\ stories_dir' = stories_dir]_vars

\* a load of an archive without metadata.json, after a load that succeeded
C21_Witness ==
    /\ last_call.op = "load_story"
    /\ last_call.raised = "ValueError"
    /\ stories_db # {}
    /\ stories_dir # <<>>

----------------------------------------------------------------------------
(* C22: the Story that load_story returns from an archive written by       *)
(* save_story has the created_at of the Story that was saved, whatever the *)
(* time of the load and however many saves and loads came before.          *)

C22_CreatedAtPreserved ==
    (Loaded /\ last_call.filename \in DOMAIN written_by) =>
        last_call.story[1].created_at =
            written_by[last_call.filename].created_at

\* the old story was loaded, saved as x.story and loaded again, later than
\* its creation
C22_Witness ==
    /\ Loaded
    /\ last_call.filename = <<"x", EXT>>
    /\ last_call.filename \in DOMAIN written_by
    /\ last_call.story[1].id = OldStory.id
    /\ last_call.story[1].created_at < clock - 1

----------------------------------------------------------------------------
(* C30: a save_story that fails raises to its caller and returns no name,  *)
(* and the file it leaves at the target, if it made one, is not an archive *)
(* that load_story accepts: the target holds what it held before the call  *)
(* or a file whose load raises.                                            *)

C30_FailedSaveLeavesNoValidArchive ==
    [][(SaveStep /\ last_call'.raised # "") =>
          LET target == get_story_file_path(last_call'.filename)
          IN  /\ last_call'.returned = <<>>
              /\ target \in DOMAIN stories_dir' =>
                    \/ /\ target \in DOMAIN stories_dir
                       /\ stories_dir'[target] = stories_dir[target]
                    \/ LoadResult(stories_dir', target, clock').raised # ""]_vars

\* a failed save left a file with an image payload and no metadata.json
\* where a complete archive had been
C30_Witness ==
    /\ last_call.op = "save_story"
    /\ last_call.raised # ""
    /\ get_story_file_path(last_call.filename) \in DOMAIN stories_dir
    /\ ~stories_dir[get_story_file_path(last_call.filename)].has_metadata
    /\ Cardinality(stories_dir[get_story_file_path(last_call.filename)].members) > 1
    /\ saved_as # {}

----------------------------------------------------------------------------
(* Observation of the catalog *)

\* the archives of the directory whose metadata.json can be read
Readable == {f \in DOMAIN stories_dir :
                EndsWithExt(f) /\ stories_dir[f].has_metadata}

Listed == last_call.op = "list_saved_stories"

\* the step is a delete_story call
DeleteStep == last_call'.op = "delete_story" /\ clock' = clock + 1

----------------------------------------------------------------------------
(* C24: whatever the directory holds, list_saved_stories returns exactly   *)
(* one entry, with its filename, for every archive whose metadata.json can *)
(* be read, and no entry for the others.                                   *)

C24_ListsEveryReadableArchive ==
    Listed =>
        /\ {last_call.listing[k].filename : k \in 1..Len(last_call.listing)}
              = Readable
        /\ Len(last_call.listing) = Cardinality(Readable)

----------------------------------------------------------------------------
(* C25: the entries of list_saved_stories are in descending order of       *)
(* creation time, and no entry without creation_date comes before an entry *)
(* that has one.                                                           *)

C25_NewestFirst ==
    Listed =>
        \A i, j \in 1..Len(last_call.listing) :
           i < j =>
              LET a == last_call.listing[i].creation_date
                  b == last_call.listing[j].creation_date
              IN  /\ a = NoDate => b = NoDate
                  /\ (a # NoDate /\ b # NoDate) =>
                        fromisoformat(a) >= fromisoformat(b)

\* a listing of an archive with creation_date and one without it
C25_Witness ==
    /\ Listed
    /\ Len(last_call.listing) = 2
    /\ last_call.listing[1].creation_date = isoformat(2)
    /\ last_call.listing[2].creation_date = NoDate

----------------------------------------------------------------------------
(* C26: delete_story(f) answers True exactly when the directory held the   *)
(* archive named f or f.story; afterwards that archive is gone, every      *)
(* other file is as it was, a load of f raises FileNotFoundError and a     *)
(* second delete_story(f) answers False; no delete raises.                 *)

----------------------------------------------------------------------------
(* C23: a load calls no text or image provider, and it fetches the image   *)
(* of a scene from its URL only when the archive holds no payload for that *)
(* scene.                                                                  *)

C23_FetchOnlyWithoutLocalPayload ==
    (last_call.op = "gui_load_story" /\ last_call.raised = "") =>
        LET a  == stories_dir[WithExt(last_call.filename)]
            rs == a.metadata.scenes
        IN  /\ calls = <<>>
            /\ \A k \in 1..Len(rs) :
                  last_call.fetch[rs[k].index + 1] # "not called" =>
                     ~\E m \in a.members : m.path = rs[k].image_file

----------------------------------------------------------------------------
(* C27: every entry point that starts a generation, the HTTP API and the   *)
(* GUI, makes a provider call only for a request whose numScenes is in     *)
(* 3..10.                                                                  *)

C27_NumScenesValidated ==
    (mode \in {"api", "gui"} /\ (pending # NoCall \/ calls # <<>>)) =>
        prompt.numScenes \in MIN_SCENE_COUNT..MAX_SCENE_COUNT

----------------------------------------------------------------------------
(* C28: a provider call is made only for a request whose idea is not       *)
(* empty.                                                                  *)

C28_IdeaValidated ==
    (mode \in {"api", "gui"} /\ (pending # NoCall \/ calls # <<>>)) =>
        prompt.idea # ""

----------------------------------------------------------------------------
(* C29: regenerate_scene_text makes exactly one text-provider call; when   *)
(* the call fails the caller gets the error and no text, neither the       *)
(* current text nor a placeholder; when it succeeds the caller gets the    *)
(* provider's text, stripped; stories_db and the stories directory are as  *)
(* they were.                                                              *)

C29_RegenerateOnce ==
    (mode = "regenerate" /\ pending = NoCall) =>
        /\ Len(calls) = 1
        /\ calls[1].kind = "regenerate"
        /\ calls[1].raised =>
              regenerated = [status |-> "error", text |-> <<>>]
        /\ ~calls[1].raised =>
              regenerated = [status |-> "ok", text |-> Strip(calls[1].output)]
        /\ stories_db = {}
        /\ stories_dir = <<>>

\* the provider call of a regeneration raised
C29_Witness ==
    /\ mode = "regenerate"
    /\ pending = NoCall
    /\ calls[1].raised
    /\ calls[1].prompt # <<>>

----------------------------------------------------------------------------
(* C31: when the GUI's generation has failed at the SKETCH, CHARACTER or   *)
(* SCENES stage, the status callback has reported exactly one failure      *)
(* reason, and the caller got [], [], []: no scenes and no images.         *)

C31_FailureReportedOnce ==
    (mode = "gui" /\ stage = "FAILED") =>
        /\ Cardinality({k \in DOMAIN events :
               /\ events[k].ev = "status"
               /\ events[k].msg \in {"Error generating story sketch",
                                     "Error generating character description",
                                     "Error generating story scenes"}}) = 1
        /\ result = Failure("[], [], []")
        /\ scenes = <<>>
        /\ \A k \in DOMAIN image_url_list : image_url_list[k] = NONE

----------------------------------------------------------------------------
(* C38: when the GUI's generation has failed and the thread has written    *)
(* its result, the UI is back in state "input" with an error status        *)
(* message; it is never in state "viewing" after a failed generation.      *)

C38_FailureReturnsToInput ==
    (mode = "gui" /\ stage = "FAILED" /\ ui_state # "generating") =>
        /\ ui_state = "input"
        /\ status_message # ""

----------------------------------------------------------------------------
(* C37: every image-provider call that regenerate_scene_image makes for    *)
(* scene index i requests the seed 42 + i.                                 *)

C37_RegenerateSeedPerScene ==
    \A k \in DOMAIN calls :
        calls[k].kind = "regenerate_image" =>
            calls[k].seed = Seed(calls[k].index)

----------------------------------------------------------------------------
(* C35: the wrapper answers an HTTPException with that exception's status  *)
(* and detail, and any other exception by the first rule that matches its  *)
(* message in any spelling of upper and lower case: "api key" gives 401,   *)
(* else "rate limit" 429, else "not found" 404, else "invalid" 400, else   *)
(* 500; so the answers to an authentication failure, a rate-limit failure  *)
(* and a generic failure are three different status codes.                 *)

C35_ErrorMapping ==
    LET Has(spellings) == \E k \in DOMAIN exc.message :
                             exc.message[k] \in spellings
        key == Has({"api key", "API key"})
        rate == Has({"rate limit", "Rate Limit"})
        missing == Has({"not found"})
        invalid == Has({"invalid", "Invalid"})
        code == response.status_code
    IN  code # 0 =>
          /\ exc.kind = "http" =>
                response = [status_code |-> exc.status_code,
                            detail |-> exc.message]
          /\ exc.kind = "other" =>
                /\ code = 401 <=> key
                /\ code = 429 <=> ~key /\ rate
                /\ code = 404 <=> ~key /\ ~rate /\ missing
                /\ code = 400 <=> ~key /\ ~rate /\ ~missing /\ invalid
                /\ code = 500 <=> ~key /\ ~rate /\ ~missing /\ ~invalid
                /\ code \in {401, 429, 404, 400, 500}

\* a rate-limit message that also names the API key is answered with 401
C35_Witness ==
    /\ exc.kind = "other"
    /\ exc.message = <<"Rate Limit", "API key">>
    /\ response.status_code = 401

----------------------------------------------------------------------------
(* C34: every archive that a successful save_story wrote for a story of n  *)
(* scenes holds n scene records with the indices 0..n-1 in order and       *)
(* num_scenes = n; the record of scene i names "images/scene_<i>.png" as   *)
(* its image_file exactly when the archive holds an image payload at that  *)
(* path, it names no other path, and the archive holds no other payload.   *)

C34_MetadataMatchesPayloads ==
    \A f \in DOMAIN written_by :
        LET a  == stories_dir[f]
            rs == a.metadata.scenes
            n  == Len(written_by[f].scenes)
            payloads == {m.path : m \in {x \in a.members : x.data # NoData}}
        IN  /\ a.has_metadata
            /\ Len(rs) = n
            /\ a.metadata.num_scenes = n
            /\ \A k \in 1..n :
                  /\ rs[k].index = k - 1
                  /\ rs[k].image_file \in {NONE, ImagePaths[k]}
                  /\ rs[k].image_file = ImagePaths[k]
                        <=> ImagePaths[k] \in payloads
            /\ payloads \subseteq {ImagePaths[k] : k \in 1..n}

\* a save of two scenes: the image of the first was not fetched, the image
\* of the second is in the archive
C34_Witness ==
    /\ Saved
    /\ Len(last_call.fetch) = 2
    /\ last_call.fetch[1] = "failed"
    /\ last_call.fetch[2] = "first"
    /\ stories_dir[last_call.returned].metadata.scenes[1].image_file = NONE
    /\ stories_dir[last_call.returned].metadata.scenes[2].image_file =
          "images/scene_1.png"

----------------------------------------------------------------------------
(* C36: when the archive file that a load, download or delete route names  *)
(* does not exist, the route answers 404.                                  *)

C36_MissingArchiveIs404 ==
    /\ (/\ last_call.op = "load_story"
        /\ last_call.filename \notin DOMAIN stories_dir)
          => last_call.status_code = 404
    /\ (/\ last_call.op = "download_story"
        /\ get_story_file_path(last_call.filename) \notin DOMAIN stories_dir)
          => last_call.status_code = 404
    /\ (last_call.op = "delete_story" /\ ~last_call.deleted)
          => last_call.status_code = 404

----------------------------------------------------------------------------
(* C40: an upload never changes or removes a file that was there; when it  *)
(* fails the directory is as it was, the temporary file included; when it  *)
(* succeeds the directory has one more file, holding the uploaded story,   *)
(* under "<title>.story" or, when that name is taken, under the first      *)
(* "<title>_<k>.story", k = 1, 2, ..., that is free.                       *)

C40_UploadNeverOverwrites ==
    [][(last_call'.op = "upload_story" /\ clock' = clock + 1) =>
          LET new == last_call'.returned
              title == last_call'.story[1].title
              name(k) == IF k = 0 THEN <<title, EXT>>
                         ELSE <<title, "_">> \o Dec(k) \o <<EXT>>
          IN  /\ \A f \in DOMAIN stories_dir :
                    /\ f \in DOMAIN stories_dir'
                    /\ stories_dir'[f] = stories_dir[f]
              /\ \A f \in DOMAIN stories_dir' : f[1] # "temp_uuid"
              /\ last_call'.status_code # 200 =>
                    /\ stories_dir' = stories_dir
                    /\ stories_db' = stories_db
              /\ last_call'.status_code = 200 =>
                    /\ new \notin DOMAIN stories_dir
                    /\ DOMAIN stories_dir' = DOMAIN stories_dir \cup {new}
                    /\ LoadResult(stories_dir', new, clock).story
                          = last_call'.story
                    /\ \E k \in 0..Cardinality(DOMAIN stories_dir) :
                          /\ new = name(k)
                          /\ \A j \in 0..(k - 1) :
                                name(j) \in DOMAIN stories_dir]_vars

\* the second upload of a story whose title names a file that is there:
\* "Old.story" and "Old_1.story" are taken, the upload is "Old_2.story"
C40_Witness ==
    /\ last_call.op = "upload_story"
    /\ last_call.status_code = 200
    /\ last_call.returned = <<"Old", "_", "2", EXT>>
    /\ {<<"Old", EXT>>, <<"Old", "_", "1", EXT>>} \subseteq DOMAIN stories_dir

----------------------------------------------------------------------------
(* C33: the archive files change only in a save, an upload or a delete of  *)
(* an archive: a load, a listing, a download and a delete from the         *)
(* registry leave every file as it is, whatever they do to the registry;   *)
(* and the file of a story holds the caller's story again once a save of   *)
(* it has returned.                                                        *)

C33_OnlySaveUploadDeleteWrite ==
    [][/\ stories_dir' # stories_dir =>
             /\ last_call'.op \in {"save_story", "upload_story",
                                   "delete_story"}
             /\ clock' = clock + 1
       /\ (SaveStep /\ last_call'.raised = "") =>
             stories_dir'[last_call'.returned] =
                SavedArchive(caller_story, last_call'.fetch, clock)]_vars

\* the story loaded from old.story was deleted from the registry, and the
\* file is as it was
C33_Witness ==
    /\ last_call.op = "load_story"
    /\ last_call.status_code = 200
    /\ stories_db = {}
    /\ <<"old", EXT>> \in DOMAIN stories_dir
    /\ stories_dir[<<"old", EXT>>].has_metadata

----------------------------------------------------------------------------
(* C32: a generation thread never holds the UI lock while one of its       *)
(* provider calls is in progress: it holds the lock only inside a status   *)
(* callback and while it writes its result.  So the main thread, when it   *)
(* wants to draw during a provider call, can take the lock, and whoever    *)
(* holds the lock can release it: the two threads never block each other   *)
(* for good.                                                               *)

C32_NoLockDuringProviderCall ==
    /\ \A t \in DOMAIN threads :
          /\ threads[t].pc = "calling" => lock # t
          /\ lock = t => threads[t].pc \in {"status", "writing"}
    /\ lock = -1 <=> main_pc = "drawing"
    /\ (/\ main_pc = "events"
        /\ \E t \in DOMAIN threads : threads[t].pc = "calling")
          => ENABLED (run /\ lock' = -1)
    /\ lock # 0 =>
          ENABLED ((run \/ update_status \/ generate_story_thread)
                      /\ lock' = 0)

\* the main thread draws under the lock while a provider call is in progress
C32_Witness ==
    /\ main_pc = "drawing"
    /\ lock = -1
    /\ \E t \in DOMAIN threads : threads[t].pc = "calling"

----------------------------------------------------------------------------
(* C39: at most one generation thread has not yet written its result, and  *)
(* while there is one the state is "generating"; a thread is started only  *)
(* by a step from state "input" with the file dialog closed, and the step  *)
(* sets the state to "generating"; in state "generating" no thread is      *)
(* started, the file dialog stays closed, and the state and the story      *)
(* change only when the thread writes its result.                          *)

C39_OneGenerationThread ==
    [][LET live(ts) == {t \in DOMAIN ts : ts[t].pc # "done"}
       IN  /\ Cardinality(live(threads')) <= 1
           /\ live(threads') # {} => ui_state' = "generating"
           /\ Len(threads') > Len(threads) =>
                 /\ ui_state = "input"
                 /\ ~show_file_dialog
                 /\ ui_state' = "generating"
           /\ ui_state = "generating" =>
                 /\ Len(threads') = Len(threads)
                 /\ ~show_file_dialog'
                 /\ (story_scenes' # story_scenes \/ ui_state' # ui_state) =>
                       \E t \in live(threads) :
                          /\ threads[t].pc = "writing"
                          /\ threads'[t].pc = "done"]_vars

\* a second generation, started after the first thread wrote its result
C39_Witness ==
    /\ Len(threads) = 2
    /\ threads[1].pc = "done"
    /\ threads[2].pc = "calling"
    /\ ui_state = "generating"

====
